---- MODULE Spec2Model ----
(***************************************************************************)
(* Structured-record recovery pipeline of the StudyBuddy backend:          *)
(*   backend/services/ai_service.py  parse_midterm_analysis,               *)
(*                                    parse_quiz_questions, _fix_json,      *)
(*                                    _extract_errors_from_broken_json,     *)
(*                                    _extract_questions_from_broken_json   *)
(*   backend/main.py                  randomize_question_options            *)
(*                                                                         *)
(* A text is a sequence of one-character strings.  A JSON value is a       *)
(* tagged record [t, v]; a Python dict is a sequence of <<key, value>>     *)
(* pairs in insertion order with pairwise distinct keys.                   *)
(***************************************************************************)
EXTENDS Integers, Sequences, FiniteSets, TLC

VARIABLES
    input,      \* what the text was built from (never read by the program)
    text,       \* ai_response / json_str argument of the call
    pc,         \* position in the running function
    json_str,   \* parse_midterm_analysis: the candidate span
    result,     \* the list returned, or being built
    strategy,   \* the branch that produced the result
    scan_i,     \* _extract_questions_from_broken_json: the scan index i
    passes,     \* _fix_json: the number of applications so far
    rand_questions,  \* randomize_question_options: questions, changed in place
    q_i         \* randomize_question_options: index of the question at hand

vars == <<input, text, pc, json_str, result, strategy, scan_i, passes, rand_questions, q_i>>

(***************************************************************************)
(* Characters                                                              *)
(***************************************************************************)
DQ == "\""
BSL == "\\"
NL == "\n"
SP == " "
\* the backtick (U+0060), which a TLA+ string literal cannot hold
BT == "BACKTICK"

Digits == <<"0", "1", "2", "3", "4", "5", "6", "7", "8", "9">>

DigitChars == {Digits[d] : d \in 1..10}

IsDigit(c) == c \in DigitChars

DigitVal(c) == (CHOOSE d \in 1..10 : Digits[d] = c) - 1

\* Python's \s restricted to the characters texts are built from
IsSpace(c) == c = SP \/ c = NL

\* str.lower() on the letters that occur in upper case in the texts
Lower(c) ==
    CASE c = "A" -> "a"
      [] c = "Q" -> "q"
      [] c = "R" -> "r"
      [] c = "M" -> "m"
      [] OTHER -> c

LowerSeq(s) == [i \in 1..Len(s) |-> Lower(s[i])]

Min(S) == CHOOSE x \in S : \A y \in S : x <= y

Max(S) == CHOOSE x \in S : \A y \in S : x >= y

\* the least element of the set S of indices, 0 when S is empty
FirstIn(S) == IF S = {} THEN 0 ELSE Min(S)

\* the greatest element of the set S of indices, 0 when S is empty
LastIn(S) == IF S = {} THEN 0 ELSE Max(S)

\* s[i..] starts with the literal lit
StartsAt(s, i, lit) ==
    /\ i >= 1
    /\ i + Len(lit) - 1 <= Len(s)
    /\ \A k \in 1..Len(lit) : s[i + k - 1] = lit[k]

\* first index >= i that is not whitespace (Len(s)+1 when there is none)
SkipWs(s, i) ==
    LET j == FirstIn({k \in i..Len(s) : ~IsSpace(s[k])})
    IN IF j = 0 THEN Len(s) + 1 ELSE j

\* s[a..b]; the empty text when b < a (a Python slice)
Slice(s, a, b) == IF b < a THEN <<>> ELSE SubSeq(s, a, b)

(***************************************************************************)
(* JSON values                                                             *)
(***************************************************************************)
Null == [t |-> "null", v |-> 0]
JBool(b) == [t |-> "bool", v |-> IF b THEN 1 ELSE 0]
JNum(n) == [t |-> "num", v |-> n]
JStr(cs) == [t |-> "str", v |-> cs]
JArr(es) == [t |-> "arr", v |-> es]
JObj(ps) == [t |-> "obj", v |-> ps]

\* x is None
IsNone(x) == x.t = "null"
IsDict(x) == x.t = "obj"
IsList(x) == x.t = "arr"
IsString(x) == x.t = "str"
IsNumber(x) == x.t = "num" \/ x.t = "bool"

\* key in d
HasKey(d, k) == \E i \in 1..Len(d.v) : d.v[i][1] = k

\* d.get(k, dflt)
Get(d, k, dflt) ==
    IF HasKey(d, k)
    THEN d.v[CHOOSE i \in 1..Len(d.v) : d.v[i][1] = k][2]
    ELSE dflt

\* d[k] = x : an existing key keeps its place, a new key goes last
Put(d, k, x) ==
    IF HasKey(d, k)
    THEN JObj([i \in 1..Len(d.v) |-> IF d.v[i][1] = k THEN <<k, x>> ELSE d.v[i]])
    ELSE JObj(Append(d.v, <<k, x>>))

\* bool(x)
Truthy(x) ==
    CASE x.t = "null" -> FALSE
      [] x.t = "bool" -> x.v = 1
      [] x.t = "num" -> x.v # 0
      [] OTHER -> Len(x.v) > 0

\* a or b
Or(a, b) == IF Truthy(a) THEN a ELSE b

(***************************************************************************)
(* json.loads.  The decoder is the strict standard one: no trailing        *)
(* commas, no comments, no raw control characters inside strings, nothing  *)
(* but whitespace after the value.                                         *)
(***************************************************************************)
JErr == [ok |-> FALSE, val |-> Null, pos |-> 0]
JOk(x, p) == [ok |-> TRUE, val |-> x, pos |-> p]

\* the character an escape sequence \c stands for ("" when it is invalid)
Unescape(c) ==
    CASE c = DQ -> DQ
      [] c = BSL -> BSL
      [] c = "/" -> "/"
      [] c = "n" -> NL
      [] OTHER -> ""

\* one character of a string body; end is the index of the closing quote
StrStep(st, c, j) ==
    IF st.esc
    THEN IF Unescape(c) = ""
         THEN [st EXCEPT !.err = TRUE]
         ELSE [st EXCEPT !.esc = FALSE, !.acc = Append(st.acc, Unescape(c))]
    ELSE IF c = BSL THEN [st EXCEPT !.esc = TRUE]
    ELSE IF c = DQ THEN [st EXCEPT !.end = j]
    ELSE IF c = NL THEN [st EXCEPT !.err = TRUE]
    ELSE [st EXCEPT !.acc = Append(st.acc, c)]

\* left fold of StrStep over s[lo..hi], stopping at the closing quote
RECURSIVE StrFold(_, _, _, _)
StrFold(s, lo, hi, st) ==
    IF lo > hi \/ st.end # 0 \/ st.err THEN st
    ELSE IF lo = hi THEN StrStep(st, s[lo], lo)
    ELSE LET mid == (lo + hi) \div 2
             left == StrFold(s, lo, mid, st)
         IN StrFold(s, mid + 1, hi, left)

\* s[i] is the opening quote
ParseString(s, i) ==
    LET st == StrFold(s, i + 1, Len(s),
                      [esc |-> FALSE, acc |-> <<>>, end |-> 0, err |-> FALSE])
    IN IF st.err \/ st.end = 0 THEN JErr ELSE JOk(JStr(st.acc), st.end + 1)

RECURSIVE DigitsVal(_, _, _, _)
DigitsVal(s, lo, hi, acc) ==
    IF lo > hi THEN acc ELSE DigitsVal(s, lo + 1, hi, 10 * acc + DigitVal(s[lo]))

\* an integer literal -?(0|[1-9][0-9]*) at s[i]
ParseNumber(s, i) ==
    LET neg == s[i] = "-"
        d == IF neg THEN i + 1 ELSE i
    IN IF d > Len(s) \/ ~IsDigit(s[d]) THEN JErr
       ELSE IF s[d] = "0" THEN JOk(JNum(0), d + 1)
       ELSE LET nd == FirstIn({k \in d..Len(s) : ~IsDigit(s[k])})
                e == IF nd = 0 THEN Len(s) ELSE nd - 1
                n == DigitsVal(s, d, e, 0)
            IN JOk(JNum(IF neg THEN 0 - n ELSE n), e + 1)

RECURSIVE ParseValue(_, _)
RECURSIVE ParseElems(_, _, _)
RECURSIVE ParseMembers(_, _, _)

\* the elements of an array, s[i] starts the next element
ParseElems(s, i, acc) ==
    LET e == ParseValue(s, i)
        k == SkipWs(s, e.pos)
    IN IF ~e.ok \/ k > Len(s) THEN JErr
       ELSE IF s[k] = "]" THEN JOk(JArr(Append(acc, e.val)), k + 1)
       ELSE IF s[k] = "," THEN ParseElems(s, SkipWs(s, k + 1), Append(acc, e.val))
       ELSE JErr

\* the members of an object, s[i] must open the next key
ParseMembers(s, i, acc) ==
    IF i > Len(s) \/ s[i] # DQ THEN JErr
    ELSE LET key == ParseString(s, i)
             c == SkipWs(s, key.pos)
         IN IF ~key.ok \/ c > Len(s) \/ s[c] # ":" THEN JErr
            ELSE LET e == ParseValue(s, SkipWs(s, c + 1))
                     k == SkipWs(s, e.pos)
                     d == Put(acc, key.val.v, e.val)
                 IN IF ~e.ok \/ k > Len(s) THEN JErr
                    ELSE IF s[k] = "}" THEN JOk(d, k + 1)
                    ELSE IF s[k] = "," THEN ParseMembers(s, SkipWs(s, k + 1), d)
                    ELSE JErr

ParseValue(s, i) ==
    IF i > Len(s) THEN JErr
    ELSE CASE s[i] = DQ -> ParseString(s, i)
           [] s[i] = "[" ->
                LET j == SkipWs(s, i + 1)
                IN IF j > Len(s) THEN JErr
                   ELSE IF s[j] = "]" THEN JOk(JArr(<<>>), j + 1)
                   ELSE ParseElems(s, j, <<>>)
           [] s[i] = "{" ->
                LET j == SkipWs(s, i + 1)
                IN IF j > Len(s) THEN JErr
                   ELSE IF s[j] = "}" THEN JOk(JObj(<<>>), j + 1)
                   ELSE ParseMembers(s, j, JObj(<<>>))
           [] s[i] = "-" \/ IsDigit(s[i]) -> ParseNumber(s, i)
           [] StartsAt(s, i, <<"n", "u", "l", "l">>) -> JOk(Null, i + 4)
           [] StartsAt(s, i, <<"t", "r", "u", "e">>) -> JOk(JBool(TRUE), i + 4)
           [] StartsAt(s, i, <<"f", "a", "l", "s", "e">>) -> JOk(JBool(FALSE), i + 5)
           [] OTHER -> JErr

\* json.loads(s): ok = FALSE stands for JSONDecodeError
\* r is the value decoded at the start of s: anything but whitespace after
\* it is "Extra data"
WholeText(s, r) == IF r.ok /\ SkipWs(s, r.pos) > Len(s) THEN r ELSE JErr

Loads(s) == WholeText(s, ParseValue(s, SkipWs(s, 1)))

(***************************************************************************)
(* The texts a model completion is built from: a JSON value written out    *)
(* the way a model writes one (compact, string contents escaped).          *)
(***************************************************************************)
EscapeChar(c) ==
    CASE c = DQ -> <<BSL, DQ>>
      [] c = BSL -> <<BSL, BSL>>
      [] c = NL -> <<BSL, "n">>
      [] OTHER -> <<c>>

\* ss[lo] \o ... \o ss[hi]
RECURSIVE ConcatRange(_, _, _)
ConcatRange(ss, lo, hi) ==
    IF lo > hi THEN <<>>
    ELSE IF lo = hi THEN ss[lo]
    ELSE LET mid == (lo + hi) \div 2
         IN ConcatRange(ss, lo, mid) \o ConcatRange(ss, mid + 1, hi)

Concat(ss) == ConcatRange(ss, 1, Len(ss))

RenderString(cs) == <<DQ>> \o Concat([i \in 1..Len(cs) |-> EscapeChar(cs[i])]) \o <<DQ>>

RECURSIVE RenderNat(_)
RenderNat(n) == IF n < 10 THEN <<Digits[n + 1]>> ELSE RenderNat(n \div 10) \o <<Digits[(n % 10) + 1]>>

\* the parts ps joined by commas
RECURSIVE Join(_)
Join(ps) ==
    IF ps = <<>> THEN <<>>
    ELSE IF Len(ps) = 1 THEN ps[1]
    ELSE ps[1] \o <<",">> \o Join(Tail(ps))

RECURSIVE Render(_)
Render(x) ==
    CASE x.t = "null" -> <<"n", "u", "l", "l">>
      [] x.t = "bool" -> IF x.v = 1 THEN <<"t", "r", "u", "e">> ELSE <<"f", "a", "l", "s", "e">>
      [] x.t = "num" -> IF x.v < 0 THEN <<"-">> \o RenderNat(0 - x.v) ELSE RenderNat(x.v)
      [] x.t = "str" -> RenderString(x.v)
      [] x.t = "arr" -> <<"[">> \o Join([i \in 1..Len(x.v) |-> Render(x.v[i])]) \o <<"]">>
      [] OTHER -> <<"{">> \o Join([i \in 1..Len(x.v) |->
                        RenderString(x.v[i][1]) \o <<":">> \o Render(x.v[i][2])]) \o <<"}">>

(***************************************************************************)
(* AIService._fix_json                                                     *)
(***************************************************************************)
\* re.sub(r",(\s*[}\]])", r"\1", s): a comma followed by optional
\* whitespace and a closing brace or bracket is deleted
IsTrailingComma(s, j) ==
    /\ s[j] = ","
    /\ LET k == SkipWs(s, j + 1)
       IN k <= Len(s) /\ (s[k] = "}" \/ s[k] = "]")

\* re.sub(r",(\s*[}\]])", r"\1", s): the commas go, the group stays
StripTrailingCommas(s) ==
    Concat([j \in 1..Len(s) |-> IF IsTrailingComma(s, j) THEN <<>> ELSE <<s[j]>>])

\* the replacement argument "\\n" of the second re.sub: a backslash and an n
NewlineRepl == <<BSL, "n">>

\* re.sub expands the escapes of its replacement template: the template
\* backslash-n is the newline character, an escaped backslash is a backslash
RECURSIVE ExpandTemplate(_)
ExpandTemplate(tpl) ==
    IF tpl = <<>> THEN <<>>
    ELSE IF tpl[1] = BSL /\ Len(tpl) >= 2
         THEN <<IF tpl[2] = "n" THEN NL ELSE tpl[2]>> \o ExpandTemplate(Tail(Tail(tpl)))
         ELSE <<tpl[1]>> \o ExpandTemplate(Tail(tpl))

\* re.sub(r"(?<!\\)\n", "\\n", s)
FixNewlines(s) ==
    LET repl == ExpandTemplate(NewlineRepl)
    IN Concat([j \in 1..Len(s) |->
                 IF s[j] = NL /\ (j = 1 \/ s[j - 1] # BSL) THEN repl ELSE <<s[j]>>])

\* re.sub(r"//.*?$", "", s, flags=re.MULTILINE): from a // up to the end of
\* its line (the newline itself stays)
StripComments(s) ==
    LET starts == {p \in 1..(Len(s) - 1) : s[p] = "/" /\ s[p + 1] = "/"}
        nls == {k \in 1..Len(s) : s[k] = NL}
        InComment(j) == \E p \in starts : p <= j /\ ~\E k \in nls : p <= k /\ k <= j
    IN Concat([j \in 1..Len(s) |-> IF InComment(j) THEN <<>> ELSE <<s[j]>>])

_fix_json(s) == StripComments(FixNewlines(StripTrailingCommas(s)))

(***************************************************************************)
(* Field names                                                             *)
(***************************************************************************)
kId == <<"i", "d">>
kText == <<"t", "e", "x", "t">>
kOptions == <<"o", "p", "t", "i", "o", "n", "s">>
kCorrectAnswer == <<"c", "o", "r", "r", "e", "c", "t", "A", "n", "s", "w", "e", "r">>
kExplanation == <<"e", "x", "p", "l", "a", "n", "a", "t", "i", "o", "n">>
kTopic == <<"t", "o", "p", "i", "c">>
kQuestions == <<"q", "u", "e", "s", "t", "i", "o", "n", "s">>
kQuestion == <<"q", "u", "e", "s", "t", "i", "o", "n">>

sGeneratedQuestion == <<"G", "e", "n", "e", "r", "a", "t", "e", "d", " ",
                        "q", "u", "e", "s", "t", "i", "o", "n">>
sGeneral == <<"G", "e", "n", "e", "r", "a", "l">>

(***************************************************************************)
(* AIService._extract_questions_from_broken_json                           *)
(***************************************************************************)
\* BraceStep without the string and escape tracking of lines 607-617: every
\* brace counts
BraceStepEveryBrace(st, c, j) ==
    IF c = "{" THEN [st EXCEPT !.brace_count = st.brace_count + 1]
    ELSE IF c = "}"
         THEN IF st.brace_count - 1 = 0
              THEN [st EXCEPT !.brace_count = 0, !.end = j]
              ELSE [st EXCEPT !.brace_count = st.brace_count - 1]
    ELSE st

\* one character of the inner for loop (lines 604-624); end is the index j
\* at which brace_count returned to 0
BraceStep(st, c, j) ==
    IF st.escape_next THEN [st EXCEPT !.escape_next = FALSE]
    ELSE IF c = BSL THEN [st EXCEPT !.escape_next = TRUE]
    ELSE IF c = DQ THEN [st EXCEPT !.in_string = ~st.in_string]
    ELSE IF st.in_string THEN st
    ELSE IF c = "{" THEN [st EXCEPT !.brace_count = st.brace_count + 1]
    ELSE IF c = "}"
         THEN IF st.brace_count - 1 = 0
              THEN [st EXCEPT !.brace_count = 0, !.end = j]
              ELSE [st EXCEPT !.brace_count = st.brace_count - 1]
    ELSE st

\* left fold of BraceStep over s[lo..hi], stopping at the break
RECURSIVE BraceFold(_, _, _, _)
BraceFold(s, lo, hi, st) ==
    IF lo > hi \/ st.end # 0 THEN st
    ELSE IF lo = hi THEN BraceStep(st, s[lo], lo)
    ELSE LET mid == (lo + hi) \div 2
             left == BraceFold(s, lo, mid, st)
         IN BraceFold(s, mid + 1, hi, left)

\* the index of the brace that closes the object opened at s[i], 0 when the
\* for loop runs to the end of the text
ScanObject(s, i) ==
    BraceFold(s, i, Len(s),
              [escape_next |-> FALSE, in_string |-> FALSE,
               brace_count |-> 0, end |-> 0]).end

\* lines 641-650: the defaults of a salvaged record; n is the id to give
EnsureRequiredFields(obj, n) ==
    LET o1 == IF ~Truthy(Get(obj, kId, Null)) THEN Put(obj, kId, JStr(RenderNat(n))) ELSE obj
        o2 == IF ~Truthy(Get(o1, kCorrectAnswer, Null))
              THEN Put(o1, kCorrectAnswer, JStr(<<"a">>)) ELSE o1
        o3 == IF ~Truthy(Get(o2, kExplanation, Null))
              THEN Put(o2, kExplanation, JStr(sGeneratedQuestion)) ELSE o2
    IN IF ~Truthy(Get(o3, kTopic, Null)) THEN Put(o3, kTopic, JStr(sGeneral)) ELSE o3

\* lines 630-639
LooksLikeQuestion(obj) ==
    /\ IsDict(obj)
    /\ HasKey(obj, kText)
    /\ HasKey(obj, kOptions)
    /\ IsList(Get(obj, kOptions, Null))
    /\ Len(Get(obj, kOptions, Null).v) >= 2

\* one iteration of the while loop that starts at the '{' at index p: the
\* value of i after it and the questions after it
\* lines 626-652: r is json.loads of the object text, a JSONDecodeError is
\* swallowed (line 651)
KeepIfQuestion(r, questions) ==
    IF r.ok /\ LooksLikeQuestion(r.val)
    THEN Append(questions, EnsureRequiredFields(r.val, Len(questions) + 1))
    ELSE questions

\* SalvageSpan for a loop that stays on an object that never closes
SalvageSpanStaying(s, p, j, questions) ==
    IF j = 0 THEN [i |-> p, questions |-> questions]
    ELSE [i |-> j + 1, questions |-> KeepIfQuestion(Loads(SubSeq(s, p, j)), questions)]

\* lines 620-665: j is the index of the closing brace, 0 when there is none
SalvageSpan(s, p, j, questions) ==
    IF j = 0 THEN [i |-> p + 1, questions |-> questions]
    ELSE [i |-> j + 1, questions |-> KeepIfQuestion(Loads(SubSeq(s, p, j)), questions)]

SalvageAt(s, p, questions) == SalvageSpan(s, p, ScanObject(s, p), questions)

\* the while loop of lines 595-667 from index i on
RECURSIVE BalancedBracePass(_, _, _)
\* the loop goes on from the state n that one iteration left
BraceNext(s, n) == BalancedBracePass(s, n.i, n.questions)

BalancedBracePass(s, i, questions) ==
    LET p == FirstIn({k \in i..Len(s) : s[k] = "{"})
    IN IF p = 0 THEN questions ELSE BraceNext(s, SalvageAt(s, p, questions))

\* regex steps: each takes the index to match at (0: already failed) and
\* gives the index after the match (0: no match)
ThenLit(s, i, lit) == IF i # 0 /\ StartsAt(s, i, lit) THEN i + Len(lit) ELSE 0

ThenWs(s, i) == IF i = 0 THEN 0 ELSE SkipWs(s, i)

\* [^c]*c
ThenUpTo(s, i, c) ==
    LET k == IF i = 0 THEN 0 ELSE FirstIn({j \in i..Len(s) : s[j] = c})
    IN IF k = 0 THEN 0 ELSE k + 1

\* "key"\s*:\s*
ThenKey(s, i, key) ==
    ThenWs(s, ThenLit(s, ThenWs(s, ThenLit(s, i, <<DQ>> \o key \o <<DQ>>)), <<":">>))

\* "[^"]*"\s*,\s*
ThenStringComma(s, i) ==
    ThenWs(s, ThenLit(s, ThenWs(s, ThenUpTo(s, ThenLit(s, i, <<DQ>>), DQ)), <<",">>))

\* question_pattern of line 671 matched at index p: the index after the
\* match, 0 when it does not match there
MatchQuestionPattern(s, p) ==
    LET a == ThenStringComma(s, ThenKey(s, ThenLit(s, p, <<"{">>), kId))
        b == ThenStringComma(s, ThenKey(s, a, kText))
        c == ThenLit(s, ThenKey(s, b, kOptions), <<"[">>)
    IN ThenUpTo(s, c, "]")

\* re.search(r'"options"\s*:\s*\[.*?\]', obj_str).end() as a count of
\* characters of obj_str, 0 when there is no match
MatchOptions(obj_str, p) ==
    ThenUpTo(obj_str, ThenLit(obj_str, ThenKey(obj_str, p, kOptions), <<"[">>), "]")

OptionsEndAt(obj_str, p) == IF p = 0 THEN 0 ELSE MatchOptions(obj_str, p) - 1

OptionsEnd(obj_str) ==
    OptionsEndAt(obj_str, FirstIn({k \in 1..Len(obj_str) : MatchOptions(obj_str, k) # 0}))

\* lines 675-702 for the i-th match, obj_str
\* lines 688-701: r is json.loads of the completed object
KeepIfPartial(r, i, questions) ==
    IF r.ok /\ HasKey(r.val, kText) /\ HasKey(r.val, kOptions)
    THEN Append(questions, EnsureRequiredFields(r.val, i))
    ELSE questions

\* lines 678-686: options_end is where the options array of obj_str ends
CloseAfterOptions(obj_str, options_end, i, questions) ==
    IF obj_str[Len(obj_str)] # "}" /\ options_end # 0
    THEN KeepIfPartial(Loads(SubSeq(obj_str, 1, options_end) \o <<"}">>), i, questions)
    ELSE questions

CompletePartial(obj_str, i, questions) ==
    CloseAfterOptions(obj_str, OptionsEnd(obj_str), i, questions)

\* the finditer loop of lines 672-702 from index from on, i counts matches
RECURSIVE RegexPass(_, _, _, _)
\* the match that starts at p (0: no further match) ends before e
RegexSpan(s, p, e, i, questions) ==
    RegexPass(s, e, i + 1, CompletePartial(SubSeq(s, p, e - 1), i, questions))

RegexMatch(s, p, i, questions) ==
    IF p = 0 THEN questions ELSE RegexSpan(s, p, MatchQuestionPattern(s, p), i, questions)

RegexPass(s, from, i, questions) ==
    RegexMatch(s, FirstIn({k \in from..Len(s) : MatchQuestionPattern(s, k) # 0}), i, questions)

\* line 669: the regex pass runs only when the brace pass found nothing
OrRegexPass(s, questions) ==
    IF questions = <<>> THEN RegexPass(s, 1, 1, <<>>) ELSE questions

_extract_questions_from_broken_json(s) == OrRegexPass(s, BalancedBracePass(s, 1, <<>>))

(***************************************************************************)
(* AIService._extract_questions_from_text                                  *)
(***************************************************************************)
\* s[i..] starts with lit, ignoring case
StartsAtCI(s, i, lit) ==
    /\ i >= 1
    /\ i + Len(lit) - 1 <= Len(s)
    /\ \A k \in 1..Len(lit) : Lower(s[i + k - 1]) = lit[k]

\* index after the run of characters of the class chars that starts at i
RunEnd(s, i, chars) ==
    LET k == FirstIn({j \in i..Len(s) : s[j] \notin chars})
    IN IF k = 0 THEN Len(s) + 1 ELSE k

\* (?:Question|Q)\s*\d+ with re.IGNORECASE at index p: the index after the
\* match, 0 when it does not match there
\* \d+ at index w: the index after the digits, 0 when there is none
DigitsAt(s, w) == IF w <= Len(s) /\ IsDigit(s[w]) THEN RunEnd(s, w, DigitChars) ELSE 0

\* the alternative Q is tried when the alternative Question fails (long = 0)
MarkerOr(s, p, long) ==
    IF long # 0 THEN long
    ELSE IF Lower(s[p]) = "q" THEN DigitsAt(s, SkipWs(s, p + 1))
    ELSE 0

QuestionMarker(s, p) ==
    IF p < 1 \/ p > Len(s) THEN 0
    ELSE MarkerOr(s, p, IF StartsAtCI(s, p, kQuestion)
                        THEN DigitsAt(s, SkipWs(s, p + Len(kQuestion))) ELSE 0)

ColonOrSpace == {":", SP, NL}

IsColonOrSpace(c) == c \in ColonOrSpace

\* (?=(?:Question|Q)\s*\d+|$) at index e
QuestionLookahead(s, e) ==
    \/ e = Len(s) + 1
    \/ e = Len(s) /\ s[e] = NL
    \/ QuestionMarker(s, e) # 0

\* question_pattern of line 711 at index p: [start, stop] of group 1 and the
\* index after the match; ok = FALSE when it does not match there
NoTextMatch == [ok |-> FALSE, start |-> 0, stop |-> 0, end |-> 0]

\* group 1 is s[start..e-1], e is where the lookahead holds
TextSpan(start, e) == [ok |-> TRUE, start |-> start, stop |-> e - 1, end |-> e]

\* (.+?)(?=...): the least end after at least one character
TextUpTo(s, start) ==
    TextSpan(start, FirstIn({k \in (start + 1)..(Len(s) + 1) : QuestionLookahead(s, k)}))

\* [:\s]+ took s[d..g-1].  .+? needs one character: at the end of the text
\* the greedy [:\s]+ gives its last character back
TextAfter(s, d, g) ==
    IF g = d \/ (g > Len(s) /\ g - d < 2) THEN NoTextMatch
    ELSE TextUpTo(s, IF g > Len(s) THEN Len(s) ELSE g)

\* d is the index after the marker, 0 when there is no marker
TextFrom(s, d) == IF d = 0 THEN NoTextMatch ELSE TextAfter(s, d, RunEnd(s, d, ColonOrSpace))

MatchTextPattern(s, p) == TextFrom(s, QuestionMarker(s, p))

\* str.strip()
Strip(s) ==
    LET a == FirstIn({k \in 1..Len(s) : ~IsSpace(s[k])})
        b == LastIn({k \in 1..Len(s) : ~IsSpace(s[k])})
    IN IF a = 0 THEN <<>> ELSE SubSeq(s, a, b)

MinQuestionTextLen == 20
MaxQuestionTextLen == 200

PlaceholderOption(id, letter) ==
    JObj(<< <<kId, JStr(<<id>>)>>,
            <<kText, JStr(<<"O", "p", "t", "i", "o", "n", " ", letter>>)>> >>)

\* the record of lines 717-730
PlaceholderQuestion(i, question_text) ==
    JObj(<< <<kId, JStr(RenderNat(i))>>,
            <<kText, JStr(Slice(question_text, 1,
                                IF Len(question_text) > MaxQuestionTextLen
                                THEN MaxQuestionTextLen ELSE Len(question_text)))>>,
            <<kOptions, JArr(<<PlaceholderOption("a", "A"), PlaceholderOption("b", "B"),
                               PlaceholderOption("c", "C"), PlaceholderOption("d", "D")>>)>>,
            <<kCorrectAnswer, JStr(<<"a">>)>>,
            <<kExplanation, JStr(<<"G", "e", "n", "e", "r", "a", "t", "e", "d", " ",
                                   "f", "r", "o", "m", " ", "A", "I", " ",
                                   "r", "e", "s", "p", "o", "n", "s", "e">>)>>,
            <<kTopic, JStr(sGeneral)>> >>)

\* the finditer loop of lines 714-730 from index from on, i counts matches
\* line 716
KeepIfLong(question_text, i, questions) ==
    IF Len(question_text) > MinQuestionTextLen
    THEN Append(questions, PlaceholderQuestion(i, question_text))
    ELSE questions

RECURSIVE TextPass(_, _, _, _)
\* m is the i-th match
TextMatch(s, m, i, questions) ==
    TextPass(s, m.end, i + 1, KeepIfLong(Strip(Slice(s, m.start, m.stop)), i, questions))

\* TextAt for a loop that never comes back empty: one placeholder question
\* about the whole text when nothing matched
TextAtOrPlaceholder(s, p, i, questions) ==
    IF p = 0
    THEN IF questions = <<>> THEN <<PlaceholderQuestion(i, s)>> ELSE questions
    ELSE TextMatch(s, MatchTextPattern(s, p), i, questions)

\* p is where the i-th match starts, 0 when there is none
TextAt(s, p, i, questions) ==
    IF p = 0 THEN questions ELSE TextMatch(s, MatchTextPattern(s, p), i, questions)

TextPass(s, from, i, questions) ==
    TextAt(s, FirstIn({k \in from..Len(s) : MatchTextPattern(s, k).ok}), i, questions)

_extract_questions_from_text(s) == TextPass(s, 1, 1, <<>>)

(***************************************************************************)
(* AIService.parse_quiz_questions                                          *)
(***************************************************************************)
Fence == <<BT, BT, BT>>

\* r"```(?:json)?\s*(\[.*?\])\s*```" at index p: [start, stop] of group 1
CodeBlockAt(s, p) ==
    LET a == ThenLit(s, p, Fence)
        j == IF a # 0 /\ StartsAt(s, a, <<"j", "s", "o", "n">>) THEN a + 4 ELSE a
        b == ThenLit(s, ThenWs(s, j), <<"[">>)
        e == IF b = 0 THEN 0
             ELSE FirstIn({k \in b..Len(s) : s[k] = "]" /\ StartsAt(s, SkipWs(s, k + 1), Fence)})
    IN IF e = 0 THEN [ok |-> FALSE, start |-> 0, stop |-> 0]
       ELSE [ok |-> TRUE, start |-> b - 1, stop |-> e]

\* re.search of line 412: group 1 of the leftmost match
CodeBlockMatch(s) ==
    LET p == FirstIn({k \in 1..Len(s) : CodeBlockAt(s, k).ok})
    IN IF p = 0 THEN [ok |-> FALSE, start |-> 0, stop |-> 0] ELSE CodeBlockAt(s, p)

\* lines 439-446: one character of the bracket count
BracketStep(st, c, j) ==
    IF c = "[" THEN [st EXCEPT !.bracket_count = st.bracket_count + 1]
    ELSE IF c = "]"
         THEN IF st.bracket_count - 1 = 0
              THEN [st EXCEPT !.bracket_count = 0, !.end = j]
              ELSE [st EXCEPT !.bracket_count = st.bracket_count - 1]
    ELSE st

RECURSIVE BracketFold(_, _, _, _)
BracketFold(s, lo, hi, st) ==
    IF lo > hi \/ st.end # 0 THEN st
    ELSE IF lo = hi THEN BracketStep(st, s[lo], lo)
    ELSE LET mid == (lo + hi) \div 2
             left == BracketFold(s, lo, mid, st)
         IN BracketFold(s, mid + 1, hi, left)

\* index of the ']' at which bracket_count returns to 0 for the '[' at
\* start_pos, 0 when it never does (end_pos stays start_pos)
BracketEnd(s, start_pos) ==
    BracketFold(s, start_pos, Len(s), [bracket_count |-> 0, end |-> 0]).end

\* line 450
MinArrayLen == 100

\* lines 448-474 for one '[': the best_questions after it
\* lines 454-456 and 461-463: a parsed list replaces a shorter best
Better(q, best_questions) ==
    IF IsList(q) /\ Len(q.v) > Len(best_questions) THEN q.v ELSE best_questions

\* lines 466-472: extracted is what the salvage got from the candidate
BetterExtracted(extracted, best_questions) ==
    IF Len(extracted) > Len(best_questions) THEN extracted ELSE best_questions

\* lines 457-472: rf is json.loads of the fixed candidate
TryFixed(jstr, rf, best_questions) ==
    IF rf.ok THEN Better(rf.val, best_questions)
    ELSE BetterExtracted(_extract_questions_from_broken_json(jstr), best_questions)

\* lines 452-472: r is json.loads of the candidate
TryParsed(jstr, r, best_questions) ==
    IF r.ok THEN Better(r.val, best_questions)
    ELSE TryFixed(jstr, Loads(_fix_json(jstr)), best_questions)

\* TryLong for a scan without the minimum length of line 450
TryAnyLength(jstr, best_questions) ==
    TryParsed(jstr, Loads(jstr), best_questions)

\* line 450
TryLong(jstr, best_questions) ==
    IF Len(jstr) > MinArrayLen
    THEN TryParsed(jstr, Loads(jstr), best_questions)
    ELSE best_questions

\* lines 448-449: end is the index of the closing bracket, 0 for none
TrySpan(s, start_pos, end, best_questions) ==
    IF end = 0 THEN best_questions
    ELSE TryLong(SubSeq(s, start_pos, end), best_questions)

TryCandidate(s, start_pos, best_questions) ==
    TrySpan(s, start_pos, BracketEnd(s, start_pos), best_questions)

\* the for loop of lines 434-474 over the '[' positions from index from on
RECURSIVE LargestArray(_, _, _)
\* p is the next '[' of array_starts, 0 when the loop is over
ArrayFrom(s, p, best_questions) ==
    IF p = 0 THEN best_questions
    ELSE LargestArray(s, p + 1, TryCandidate(s, p, best_questions))

LargestArray(s, from, best_questions) ==
    ArrayFrom(s, FirstIn({k \in from..Len(s) : s[k] = "["}), best_questions)

\* re.search(r"(\[[\s\S]{100,}\])", s): [start, stop] of the match
Span(p, last) ==
    IF p = 0 THEN [ok |-> FALSE, start |-> 0, stop |-> 0]
    ELSE [ok |-> TRUE, start |-> p, stop |-> last]

LongArrayUpTo(s, last) ==
    Span(FirstIn({k \in 1..(last - MinArrayLen - 1) : s[k] = "["}), last)

LongArrayMatch(s) == LongArrayUpTo(s, LastIn({k \in 1..Len(s) : s[k] = "]"}))

NonEmptyList(x) == IsList(x) /\ Len(x.v) > 0

\* lines 483-528: returned = TRUE when the fallback returns questions
NotReturned == [returned |-> FALSE, questions |-> <<>>]

Returned(q) == [returned |-> TRUE, questions |-> q]

\* a parsed value is returned when it is a non-empty list
ReturnedList(x) == IF NonEmptyList(x) THEN Returned(x.v) ELSE NotReturned

\* a salvaged list is returned when it is not empty
ReturnedIfAny(q) == IF q # <<>> THEN Returned(q) ELSE NotReturned

\* lines 510-525: q1 is the salvage of the fixed text
FallbackSalvaged(s, q1) ==
    IF q1 # <<>> THEN Returned(q1)
    ELSE ReturnedIfAny(_extract_questions_from_broken_json(s))

\* lines 496-525: rf is json.loads of the fixed text
FallbackFixed(s, fixed, rf) ==
    IF rf.ok THEN ReturnedList(rf.val)
    ELSE FallbackSalvaged(s, _extract_questions_from_broken_json(fixed))

\* lines 487-525: r is json.loads of the matched text
FallbackParsed(s, jstr, r) ==
    IF r.ok THEN ReturnedList(r.val)
    ELSE FallbackFixed(s, _fix_json(jstr), Loads(_fix_json(jstr)))

FallbackMatch(s, m) ==
    IF ~m.ok THEN NotReturned
    ELSE FallbackParsed(s, SubSeq(s, m.start, m.stop), Loads(SubSeq(s, m.start, m.stop)))

LongArrayFallback(s) == FallbackMatch(s, LongArrayMatch(s))

\* re.search(r'(\{[\s\S]*?"questions"[\s\S]*?\})', s): [start, stop]
QuestionsObjectMatch(s) ==
    LET lit == <<DQ>> \o kQuestions \o <<DQ>>
        last == LastIn({k \in 1..Len(s) : s[k] = "}"})
        p == FirstIn({k \in 1..Len(s) : s[k] = "{"})
        q == IF p = 0 THEN 0
             ELSE FirstIn({k \in (p + 1)..(last - Len(lit)) : StartsAt(s, k, lit)})
        e == IF q = 0 THEN 0
             ELSE FirstIn({k \in (q + Len(lit))..Len(s) : s[k] = "}"})
    IN IF e = 0 THEN [ok |-> FALSE, start |-> 0, stop |-> 0]
       ELSE [ok |-> TRUE, start |-> p, stop |-> e]

\* lines 531-544
QuestionsOf(r) ==
    IF r.ok /\ IsDict(r.val) /\ HasKey(r.val, kQuestions)
    THEN ReturnedList(Get(r.val, kQuestions, Null))
    ELSE NotReturned

QuestionsIn(s, m) ==
    IF m.ok THEN QuestionsOf(Loads(SubSeq(s, m.start, m.stop))) ELSE NotReturned

QuestionsObject(s) == QuestionsIn(s, QuestionsObjectMatch(s))

\* lines 412-425
CodeBlockParsed(r) == IF r.ok THEN ReturnedList(r.val) ELSE NotReturned

CodeBlockIn(s, m) ==
    IF m.ok THEN CodeBlockParsed(Loads(SubSeq(s, m.start, m.stop))) ELSE NotReturned

CodeBlock(s) == CodeBlockIn(s, CodeBlockMatch(s))

(***************************************************************************)
(* Model completions: quiz-question arrays                                 *)
(***************************************************************************)
MaxRecords == 3
MaxOptions == 4

Letters == <<"a", "b", "c", "d", "e", "f", "g", "h">>

TextStyles == {"plain", "delims", "quoted"}

\* the question text of a record
QuestionText(style) ==
    CASE style = "plain" -> <<"W", "h", "a", "t", " ", "i", "s", " ", "2", "+", "2", "?">>
      [] style = "delims" -> <<"I", "s", " ", "x", "]", " ", "o", "r", " ", "y", "}", " ", "i", "t", "?">>
      [] OTHER -> <<"W", "h", "y", " ", "\"", "s", "o", "}", "\"", "?">>

\* the text of the k-th option
OptionText(k, long) ==
    IF long THEN <<"o", "p", "t", "i", "o", "n", " ">> \o <<Letters[k]>> ELSE <<Digits[k + 1]>>

QuizOption(k, long) ==
    JObj(<< <<kId, JStr(<<Letters[k]>>)>>, <<kText, JStr(OptionText(k, long))>> >>)

\* the n-th record of a quiz array: text, nOpt options, correctAnswer
QuizRecord(n, nOpt, long, style) ==
    JObj(<< <<kId, JStr(RenderNat(n))>>,
            <<kText, JStr(QuestionText(style))>>,
            <<kOptions, JArr([k \in 1..nOpt |-> QuizOption(k, long)])>>,
            <<kCorrectAnswer, JStr(<<"b">>)>> >>)

QuizRecords(in) == [n \in 1..in.nRec |-> QuizRecord(n, in.nOpt, in.long, in.style)]

Wraps == {"bare", "prose", "cite", "fenced_json", "fenced", "container"}

WrapPrefix(wrap, key) ==
    CASE wrap = "bare" -> <<>>
      [] wrap = "prose" -> <<"H", "e", "r", "e", " ", "y", "o", "u", " ", "g", "o", ":", " ">>
      [] wrap = "cite" -> <<"A", "s", " ", "i", "n", " ", "[", "1", "]", ":", " ">>
      [] wrap = "fenced_json" -> <<"H", "e", "r", "e", " ", "y", "o", "u", " ", "g", "o", ":", "\n">> \o Fence \o <<"j", "s", "o", "n", "\n">>
      [] wrap = "fenced" -> Fence \o <<NL>>
      [] OTHER -> <<"{">> \o RenderString(key) \o <<":">>

WrapSuffix(wrap) ==
    CASE wrap = "bare" -> <<>>
      [] wrap = "prose" -> <<" ", "H", "o", "p", "e", " ", "t", "h", "i", "s", " ", "h", "e", "l", "p", "s", "!">>
      [] wrap = "cite" -> <<" ", "(", "e", "n", "d", ")">>
      [] wrap = "fenced_json" -> <<NL>> \o Fence \o <<"\n", "H", "o", "p", "e", " ", "t", "h", "i", "s", " ", "h", "e", "l", "p", "s", "!">>
      [] wrap = "fenced" -> <<NL>> \o Fence
      [] OTHER -> <<"}">>

\* a complete array of records inside its wrapping
CompleteText(wrap, key, recs) ==
    WrapPrefix(wrap, key) \o Render(JArr(recs)) \o WrapSuffix(wrap)

\* where the response stops inside the last record
Cuts == {"open", "in_text", "in_options", "after_options", "in_answer", "no_close"}

\* the first part of the rendering of record rec, cut at the place cut
CutRecord(rec, cut) ==
    LET upto(n) == LET r == Render(JObj(SubSeq(rec.v, 1, n))) IN SubSeq(r, 1, Len(r) - 1)
        opts == Get(rec, kOptions, Null).v
    IN CASE cut = "open" -> <<"{">>
         [] cut = "in_text" -> upto(1) \o <<",">> \o RenderString(kText) \o <<":", DQ, "W", "h">>
         [] cut = "in_options" -> upto(2) \o <<",">> \o RenderString(kOptions) \o <<":", "[">>
                                    \o Render(opts[1]) \o <<",">>
         [] cut = "after_options" -> upto(3)
         [] cut = "in_answer" -> upto(3) \o <<",">> \o RenderString(kCorrectAnswer) \o <<":", DQ>>
         [] OTHER -> upto(Len(rec.v))

\* an array of records that stops inside its last record
TruncatedText(wrap, key, recs, last) ==
    WrapPrefix(wrap, key) \o <<"[">>
    \o Concat([k \in 1..(Len(recs) - 1) |-> Render(recs[k]) \o <<",">>])
    \o last

\* the record of the end-to-end scenario: one question about 2+2
ExampleRecord ==
    JObj(<< <<kId, JStr(<<"1">>)>>,
            <<kText, JStr(QuestionText("plain"))>>,
            <<kOptions, JArr(<< JObj(<< <<kId, JStr(<<"a">>)>>, <<kText, JStr(<<"3">>)>> >>),
                                JObj(<< <<kId, JStr(<<"b">>)>>, <<kText, JStr(<<"4">>)>> >>) >>)>>,
            <<kCorrectAnswer, JStr(<<"b">>)>>,
            <<kExplanation, JStr(<<"b", "a", "s", "i", "c", " ", "m", "a", "t", "h">>)>>,
            <<kTopic, JStr(<<"M", "a", "t", "h">>)>> >>)

\* the completion of that scenario: prose, a fence tagged json, the array,
\* the closing fence, prose
FencedExample ==
    <<"H", "e", "r", "e", " ", "i", "s", " ", "t", "h", "e", " ", "q", "u", "i", "z", ":", "\n">>
    \o Fence \o <<"j", "s", "o", "n", "\n">>
    \o Render(JArr(<<ExampleRecord>>))
    \o <<NL>> \o Fence
    \o <<"\n", "H", "o", "p", "e", " ", "t", "h", "i", "s", " ", "h", "e", "l", "p", "s", "!">>

\* a question text that holds a closing bracket followed by three backticks
FenceInText ==
    <<"W", "h", "a", "t", " ", "d", "o", "e", "s", " ", "a", "]">> \o Fence
    \o <<" ", "d", "o", "?">>

\* two records, the second one asking about FenceInText
FenceInTextRecords ==
    << ExampleRecord,
       JObj(<< <<kId, JStr(<<"2">>)>>,
               <<kText, JStr(FenceInText)>>,
               <<kOptions, Get(ExampleRecord, kOptions, Null)>>,
               <<kCorrectAnswer, JStr(<<"a">>)>>,
               <<kExplanation, Get(ExampleRecord, kExplanation, Null)>>,
               <<kTopic, Get(ExampleRecord, kTopic, Null)>> >>) >>

\* the same completion with the array of FenceInTextRecords inside the fence
FencedFenceInText ==
    <<"H", "e", "r", "e", " ", "i", "s", " ", "t", "h", "e", " ", "q", "u", "i", "z", ":", "\n">>
    \o Fence \o <<"j", "s", "o", "n", "\n">>
    \o Render(JArr(FenceInTextRecords))
    \o <<NL>> \o Fence
    \o <<"\n", "H", "o", "p", "e", " ", "t", "h", "i", "s", " ", "h", "e", "l", "p", "s", "!">>

\* a record with the text and the options of ExampleRecord and nothing else
ShortRecord ==
    JObj(<< <<kText, Get(ExampleRecord, kText, Null)>>,
            <<kOptions, Get(ExampleRecord, kOptions, Null)>> >>)

\* the completion that is one object with the key questions around the array
\* of ShortRecord: 95 characters
ContainerExample == Render(JObj(<< <<kQuestions, JArr(<<ShortRecord>>)>> >>))

\* a record with one option only
OneOptionRecord ==
    JObj(<< <<kId, JStr(<<"1">>)>>,
            <<kText, Get(ExampleRecord, kText, Null)>>,
            <<kOptions, JArr(<<Get(ExampleRecord, kOptions, Null).v[1]>>)>> >>)

\* the array of OneOptionRecord, cut after the options of the record
OneOptionCut ==
    SubSeq(Render(JArr(<<OneOptionRecord>>)), 1, Len(Render(JArr(<<OneOptionRecord>>))) - 2)

\* texts that are no array of the records above
OtherTexts ==
    { <<>>,
      FencedExample,
      ContainerExample,
      OneOptionCut,
      FencedFenceInText,
      <<"{", "\"", "a", "\"", ":", " ", "\"", "}", "\"", "}">>,
      <<"Q", "1", ":", " ", "W", "h", "a", "t", " ", "i", "s", " ", "t", "h", "e", " ", "c", "a", "p", "i", "t", "a", "l", " ", "c", "i", "t", "y", " ", "o", "f", " ", "F", "r", "a", "n", "c", "e", "?", " ", "Q", "2", ":", " ", "s", "h", "o", "r", "t">>,
      <<"Q", "u", "e", "s", "t", "i", "o", "n", " ", "1", ":", " ", "N", "a", "m", "e", " ", "t", "h", "e", " ", "l", "a", "r", "g", "e", "s", "t", " ", "p", "l", "a", "n", "e", "t", " ", "o", "f", " ", "t", "h", "e", " ", "s", "o", "l", "a", "r", " ", "s", "y", "s", "t", "e", "m", ".", "\n">>,
      <<"I", " ", "c", "o", "u", "l", "d", " ", "n", "o", "t", " ", "p", "r", "o", "d", "u", "c", "e", " ", "a", " ", "q", "u", "i", "z", ",", " ", "s", "o", "r", "r", "y", ".">>,
      <<"[", "[", "[", " ", "]", "]", " ", "{", "{", " ", "\"", "x", "\\">>,
      <<"{", "\"", "q", "u", "e", "s", "t", "i", "o", "n", "s", "\"", ":", "[", "\"", "y", "e", "s", "\"", ",", "\"", "n", "o", "\"", "]", "}">> }

QuizInputs ==
    [schema : {"quiz"}, family : {"complete"}, nRec : 1..MaxRecords, nOpt : 2..MaxOptions,
     long : BOOLEAN, style : TextStyles, wrap : Wraps, cut : {"none"}]
    \cup
    [schema : {"quiz"}, family : {"truncated"}, nRec : 1..MaxRecords, nOpt : {2, MaxOptions},
     long : BOOLEAN, style : {"plain", "delims"}, wrap : {"bare", "prose"}, cut : Cuts]
    \cup
    [schema : {"quiz"}, family : {"other"}, other : OtherTexts]


QuizText(in) ==
    CASE in.family = "complete" -> CompleteText(in.wrap, kQuestions, QuizRecords(in))
      [] in.family = "truncated" ->
           TruncatedText(in.wrap, kQuestions, QuizRecords(in),
                         CutRecord(QuizRecords(in)[in.nRec], in.cut))
      [] OTHER -> in.other

(***************************************************************************)
(* parse_quiz_questions as a state machine: one action per strategy        *)
(***************************************************************************)
Return(q, how) ==
    /\ pc' = "done"
    /\ result' = q
    /\ strategy' = how

Goto(next) ==
    /\ pc' = next
    /\ UNCHANGED <<result, strategy>>

\* lines 411-425
Strategy1CodeBlock ==
    /\ pc = "strategy1"
    /\ LET r == CodeBlock(text)
       IN IF r.returned THEN Return(r.questions, "code_block") ELSE Goto("strategy2")
    /\ UNCHANGED <<input, text, json_str, scan_i, passes, rand_questions, q_i>>

\* lines 427-480
Strategy2LargestArray ==
    /\ pc = "strategy2"
    /\ LET best_questions == LargestArray(text, 1, <<>>)
       IN IF best_questions # <<>>
          THEN Return(best_questions, "array_scan") ELSE Goto("fallback")
    /\ UNCHANGED <<input, text, json_str, scan_i, passes, rand_questions, q_i>>

\* lines 482-528
FallbackLongArray ==
    /\ pc = "fallback"
    /\ LET r == LongArrayFallback(text)
       IN IF r.returned THEN Return(r.questions, "long_array") ELSE Goto("strategy3")
    /\ UNCHANGED <<input, text, json_str, scan_i, passes, rand_questions, q_i>>

\* Strategy3QuestionsObject for a parser that goes from the array strategies
\* straight to the salvage
Strategy3Skipped ==
    /\ pc = "strategy3"
    /\ Goto("strategy4")
    /\ UNCHANGED <<input, text, json_str, scan_i, passes, rand_questions, q_i>>

\* lines 530-544
Strategy3QuestionsObject ==
    /\ pc = "strategy3"
    /\ LET r == QuestionsObject(text)
       IN IF r.returned THEN Return(r.questions, "questions_key") ELSE Goto("strategy4")
    /\ UNCHANGED <<input, text, json_str, scan_i, passes, rand_questions, q_i>>

\* lines 546-553
Strategy4BrokenJson ==
    /\ pc = "strategy4"
    /\ LET questions == _extract_questions_from_broken_json(text)
       IN IF questions # <<>> THEN Return(questions, "salvage") ELSE Goto("strategy5")
    /\ UNCHANGED <<input, text, json_str, scan_i, passes, rand_questions, q_i>>

\* lines 555-569
Strategy5Text ==
    /\ pc = "strategy5"
    /\ LET questions == _extract_questions_from_text(text)
       IN IF questions # <<>> THEN Return(questions, "text")
          ELSE Return(<<>>, "no_questions")
    /\ UNCHANGED <<input, text, json_str, scan_i, passes, rand_questions, q_i>>

InitQuiz ==
    /\ input \in QuizInputs
    /\ text = QuizText(input)
    /\ pc = "strategy1"
    /\ json_str = <<>>
    /\ result = <<>>
    /\ strategy = "pending"
    /\ scan_i = 0
    /\ passes = 0
    /\ rand_questions = <<>>
    /\ q_i = 0

NextQuiz ==
    \/ Strategy1CodeBlock
    \/ Strategy2LargestArray
    \/ FallbackLongArray
    \/ Strategy3QuestionsObject
    \/ Strategy4BrokenJson
    \/ Strategy5Text

SpecQuiz == InitQuiz /\ [][NextQuiz]_vars

(***************************************************************************)
(* AIService.parse_midterm_analysis                                        *)
(***************************************************************************)
kErrors == <<"e", "r", "r", "o", "r", "s">>
kYourAnswer == <<"y", "o", "u", "r", "A", "n", "s", "w", "e", "r">>
kYourAnswerSnake == <<"y", "o", "u", "r", "_", "a", "n", "s", "w", "e", "r">>
kCorrectAnswerSnake == <<"c", "o", "r", "r", "e", "c", "t", "_", "a", "n", "s", "w", "e", "r">>
kFeedback == <<"f", "e", "e", "d", "b", "a", "c", "k">>
kMarksReceived == <<"m", "a", "r", "k", "s", "R", "e", "c", "e", "i", "v", "e", "d">>
kMarksReceivedSnake == <<"m", "a", "r", "k", "s", "_", "r", "e", "c", "e", "i", "v", "e", "d">>
kTotalMarks == <<"t", "o", "t", "a", "l", "M", "a", "r", "k", "s">>
kTotalMarksSnake == <<"t", "o", "t", "a", "l", "_", "m", "a", "r", "k", "s">>
kCorrectness == <<"c", "o", "r", "r", "e", "c", "t", "n", "e", "s", "s">>
kStatus == <<"s", "t", "a", "t", "u", "s">>
kCorrectnessStatus == <<"c", "o", "r", "r", "e", "c", "t", "n", "e", "s", "s", "_", "s", "t", "a", "t", "u", "s">>

sCorrect == <<"c", "o", "r", "r", "e", "c", "t">>
sIncorrect == <<"i", "n", "c", "o", "r", "r", "e", "c", "t">>
sPartiallyCorrect == <<"p", "a", "r", "t", "i", "a", "l", "l", "y", "_", "c", "o", "r", "r", "e", "c", "t">>
sUnknown == <<"U", "n", "k", "n", "o", "w", "n">>

NoMatch == [ok |-> FALSE, start |-> 0, stop |-> 0]

\* a non-greedy open.*?close with re.DOTALL: the leftmost open that has a
\* close after it, up to the first such close
ShortestSpan(s, open, close) ==
    LET p == FirstIn({k \in 1..Len(s) : s[k] = open})
        e == IF p = 0 THEN 0 ELSE FirstIn({k \in (p + 1)..Len(s) : s[k] = close})
    IN IF e = 0 THEN NoMatch ELSE [ok |-> TRUE, start |-> p, stop |-> e]

\* re.search(r"\[.*?\]", s, re.DOTALL)
ArrayMatch(s) == ShortestSpan(s, "[", "]")

\* re.search(r'\{.*?"errors".*?\}', s, re.DOTALL)
ErrorsObjectMatch(s) ==
    LET lit == <<DQ>> \o kErrors \o <<DQ>>
        last == LastIn({k \in 1..Len(s) : s[k] = "}"})
        p == FirstIn({k \in 1..Len(s) : s[k] = "{"})
        q == IF p = 0 THEN 0
             ELSE FirstIn({k \in (p + 1)..(last - Len(lit)) : StartsAt(s, k, lit)})
        e == IF q = 0 THEN 0
             ELSE FirstIn({k \in (q + Len(lit))..Len(s) : s[k] = "}"})
    IN IF e = 0 THEN NoMatch ELSE [ok |-> TRUE, start |-> p, stop |-> e]

\* re.search(r"\{.*?\}|\[.*?\]", s, re.DOTALL)
AnyJsonMatch(s) ==
    LET obj == ShortestSpan(s, "{", "}")
        arr == ShortestSpan(s, "[", "]")
    IN IF obj.ok /\ (~arr.ok \/ obj.start < arr.start) THEN obj ELSE arr

\* lines 231-248: the candidate span, <<>> for None
FindJsonStr(s) ==
    LET m1 == ArrayMatch(s)
        m2 == ErrorsObjectMatch(s)
        m3 == AnyJsonMatch(s)
    IN IF m1.ok THEN SubSeq(s, m1.start, m1.stop)
       ELSE IF m2.ok THEN SubSeq(s, m2.start, m2.stop)
       ELSE IF m3.ok THEN SubSeq(s, m3.start, m3.stop)
       ELSE <<>>

\* str(x) as far as the comparisons of lines 286-296 can tell: no list or
\* dict prints as one of the recognised words
PyStr(x) ==
    CASE x.t = "str" -> x.v
      [] x.t = "bool" -> IF x.v = 1 THEN <<"T", "r", "u", "e">> ELSE <<"F", "a", "l", "s", "e">>
      [] OTHER -> Render(x)

CorrectWords == {sCorrect, <<"r", "i", "g", "h", "t">>, <<"t", "r", "u", "e">>}
IncorrectWords == {sIncorrect, <<"w", "r", "o", "n", "g">>, <<"f", "a", "l", "s", "e">>}
PartialWords == {sPartiallyCorrect, <<"p", "a", "r", "t", "i", "a", "l", "l", "y", " ", "c", "o", "r", "r", "e", "c", "t">>,
                 <<"p", "a", "r", "t", "i", "a", "l">>, <<"p", "a", "r", "t", "i", "a", "l", "l", "y">>}

\* str.lower() on the letters the recognised words are written with
LowerWord(s) ==
    [k \in 1..Len(s) |->
        CASE s[k] = "T" -> "t" [] s[k] = "F" -> "f" [] s[k] = "C" -> "c"
          [] s[k] = "I" -> "i" [] s[k] = "P" -> "p" [] s[k] = "W" -> "w"
          [] OTHER -> Lower(s[k])]

\* lines 278-301: the recognised correctness, Null for None
NormalizeCorrectness(error) ==
    LET correctness == Or(Get(error, kCorrectness, Null),
                          Or(Get(error, kStatus, Null),
                             Get(error, kCorrectnessStatus, Null)))
        correctness_lower == Strip(LowerWord(PyStr(correctness)))
    IN IF ~Truthy(correctness) THEN Null
       ELSE IF correctness_lower \in CorrectWords THEN JStr(sCorrect)
       ELSE IF correctness_lower \in IncorrectWords THEN JStr(sIncorrect)
       ELSE IF correctness_lower \in PartialWords THEN JStr(sPartiallyCorrect)
       ELSE Null

\* lines 270-275
MarksReceivedOf(error) ==
    Or(Get(error, kMarksReceived, Null), Get(error, kMarksReceivedSnake, Null))

TotalMarksOf(error) ==
    Or(Get(error, kTotalMarks, Null), Get(error, kTotalMarksSnake, Null))

\* lines 304-318 raise TypeError: an ordering comparison with a value that
\* is no number
MarksRaise(correctness, marks_received, total_marks) ==
    /\ IsNone(correctness)
    /\ ~IsNone(marks_received)
    /\ ~IsNone(total_marks)
    /\ \/ ~IsNumber(total_marks)
       \/ total_marks.v > 0 /\ ~IsNumber(marks_received)

\* DeriveCorrectness with full marks compared by > instead of >=
DeriveCorrectnessStrict(correctness, marks_received, total_marks) ==
    IF IsNone(correctness) /\ ~IsNone(marks_received) /\ ~IsNone(total_marks)
       /\ total_marks.v > 0
    THEN IF marks_received.v > total_marks.v THEN JStr(sCorrect)
         ELSE IF marks_received.v > 0 THEN JStr(sPartiallyCorrect)
         ELSE JStr(sIncorrect)
    ELSE IF IsNone(correctness) THEN JStr(sIncorrect)
    ELSE correctness

\* lines 304-318
DeriveCorrectness(correctness, marks_received, total_marks) ==
    IF IsNone(correctness) /\ ~IsNone(marks_received) /\ ~IsNone(total_marks)
       /\ total_marks.v > 0
    THEN IF marks_received.v >= total_marks.v THEN JStr(sCorrect)
         ELSE IF marks_received.v > 0 THEN JStr(sPartiallyCorrect)
         ELSE JStr(sIncorrect)
    ELSE IF IsNone(correctness) THEN JStr(sIncorrect)
    ELSE correctness

\* lines 320-333
NormalizeError(error) ==
    LET marks_received == MarksReceivedOf(error)
        total_marks == TotalMarksOf(error)
        correctness == NormalizeCorrectness(error)
    IN JObj(<< <<kQuestion, Get(error, kQuestion, JNum(0))>>,
               <<kYourAnswer, Get(error, kYourAnswer,
                                  Get(error, kYourAnswerSnake, JStr(<<>>)))>>,
               <<kCorrectAnswer, Get(error, kCorrectAnswer,
                                     Get(error, kCorrectAnswerSnake, JStr(<<>>)))>>,
               <<kTopic, Get(error, kTopic, JStr(sUnknown))>>,
               <<kFeedback, Get(error, kFeedback, JStr(<<>>))>>,
               <<kMarksReceived, marks_received>>,
               <<kTotalMarks, total_marks>>,
               <<kCorrectness, DeriveCorrectness(correctness, marks_received, total_marks)>> >>)

\* the body of the for loop raises: error.get on a value that is no dict
\* (AttributeError), or the marks comparison (TypeError)
ErrorRaises(error) ==
    \/ ~IsDict(error)
    \/ MarksRaise(NormalizeCorrectness(error), MarksReceivedOf(error), TotalMarksOf(error))

\* lines 257-264
ErrorsOf(data) ==
    IF IsDict(data) /\ HasKey(data, kErrors) THEN Get(data, kErrors, Null)
    ELSE IF IsList(data) THEN data
    ELSE IF IsDict(data) THEN JArr(<<data>>)
    ELSE JArr(<<>>)

\* "for error in errors": the items the loop visits; iterable = FALSE
\* stands for the TypeError of a value that cannot be iterated
Iterate(errors) ==
    CASE errors.t = "arr" -> [iterable |-> TRUE, items |-> errors.v]
      [] errors.t = "str" ->
           [iterable |-> TRUE, items |-> [k \in 1..Len(errors.v) |-> JStr(<<errors.v[k]>>)]]
      [] errors.t = "obj" ->
           [iterable |-> TRUE, items |-> [k \in 1..Len(errors.v) |-> JStr(errors.v[k][1])]]
      [] OTHER -> [iterable |-> FALSE, items |-> <<>>]

\* lines 266-334: the normalized errors, raised = TRUE when the loop raises
NormalizeAll(data) ==
    LET it == Iterate(ErrorsOf(data))
    IN IF ~it.iterable \/ \E k \in 1..Len(it.items) : ErrorRaises(it.items[k])
       THEN [raised |-> TRUE, errors |-> <<>>]
       ELSE [raised |-> FALSE,
             errors |-> [k \in 1..Len(it.items) |-> NormalizeError(it.items[k])]]

\* error_pattern of line 386 at index p: the index of the closing brace
BrokenErrorAt(s, p) ==
    LET a == ThenLit(s, p, <<"{", DQ>> \o kQuestion \o <<DQ>>)
    IN IF a = 0 THEN 0 ELSE FirstIn({k \in a..Len(s) : s[k] = "}"})

\* the finditer loop of lines 387-393 from index from on
RECURSIVE BrokenErrors(_, _, _)
BrokenErrors(s, from, errors) ==
    LET p == FirstIn({k \in from..Len(s) : BrokenErrorAt(s, k) # 0})
        e == BrokenErrorAt(s, p)
        r == Loads(SubSeq(s, p, e))
    IN IF p = 0 THEN errors
       ELSE BrokenErrors(s, e + 1, IF r.ok THEN Append(errors, r.val) ELSE errors)

_extract_errors_from_broken_json(s) == BrokenErrors(s, 1, <<>>)

\* word[:\s]+ with re.IGNORECASE: the index of its first occurrence at or
\* after from, 0 when there is none
Anchor(s, from, word) ==
    FirstIn({k \in from..(Len(s) - Len(word)) : StartsAtCI(s, k, word) /\ IsColonOrSpace(s[k + Len(word)])})

AfterAnchor(s, k, word) == RunEnd(s, k + Len(word), ColonOrSpace)

wYourAnswer == LowerSeq(kYourAnswer)
wCorrectAnswer == LowerSeq(kCorrectAnswer)

\* (?=question|$) at index e
ErrorLookahead(s, e) ==
    \/ e = Len(s) + 1
    \/ e = Len(s) /\ s[e] = NL
    \/ StartsAtCI(s, e, kQuestion)

\* error_pattern of line 353 at index p: the five groups as [start, stop]
\* index pairs and the index after the match
MatchErrorPattern(s, p) ==
    LET a == RunEnd(s, p + Len(kQuestion), ColonOrSpace)
        d == RunEnd(s, a, DigitChars)
        y == Anchor(s, d, wYourAnswer)
        yE == AfterAnchor(s, y, wYourAnswer)
        c == Anchor(s, yE, wCorrectAnswer)
        cE == AfterAnchor(s, c, wCorrectAnswer)
        t == Anchor(s, cE, kTopic)
        tE == AfterAnchor(s, t, kTopic)
        f == Anchor(s, tE, kFeedback)
        fE == AfterAnchor(s, f, kFeedback)
        e == FirstIn({k \in fE..(Len(s) + 1) : ErrorLookahead(s, k)})
    IN IF StartsAtCI(s, p, kQuestion) /\ a > p + Len(kQuestion) /\ d > a
          /\ y # 0 /\ c # 0 /\ t # 0 /\ f # 0
       THEN [ok |-> TRUE, g1 |-> <<a, d - 1>>, g2 |-> <<yE, c - 1>>, g3 |-> <<cE, t - 1>>,
             g4 |-> <<tE, f - 1>>, g5 |-> <<fE, e - 1>>, end |-> e]
       ELSE [ok |-> FALSE, g1 |-> <<0, 0>>, g2 |-> <<0, 0>>, g3 |-> <<0, 0>>,
             g4 |-> <<0, 0>>, g5 |-> <<0, 0>>, end |-> 0]

Group(s, g) == JStr(Strip(Slice(s, g[1], g[2])))

\* the record of lines 358-367
StructuredError(s, m) ==
    JObj(<< <<kQuestion, JNum(DigitsVal(s, m.g1[1], m.g1[2], 0))>>,
            <<kYourAnswer, Group(s, m.g2)>>,
            <<kCorrectAnswer, Group(s, m.g3)>>,
            <<kTopic, Group(s, m.g4)>>,
            <<kFeedback, Group(s, m.g5)>>,
            <<kMarksReceived, Null>>,
            <<kTotalMarks, Null>>,
            <<kCorrectness, JStr(sIncorrect)>> >>)

\* the finditer loop of lines 354-368 from index from on
RECURSIVE StructuredErrors(_, _, _)
StructuredErrors(s, from, errors) ==
    LET p == FirstIn({k \in from..Len(s) : MatchErrorPattern(s, k).ok})
        m == MatchErrorPattern(s, p)
    IN IF p = 0 THEN errors
       ELSE StructuredErrors(s, m.end, Append(errors, StructuredError(s, m)))

_extract_structured_text(s) == StructuredErrors(s, 1, <<>>)

(***************************************************************************)
(* Model completions: assessment-error arrays                              *)
(***************************************************************************)
MaxMarks == 5

FeedbackStyles == {"plain", "delims", "quoted", "comma", "slashes"}

\* the feedback text of a record
FeedbackText(style) ==
    CASE style = "plain" -> <<"C", "h", "e", "c", "k", " ", "t", "h", "e", " ", "s", "i", "g", "n", ".">>
      [] style = "delims" -> <<"S", "e", "e", " ", "a", "[", "0", "]", " ", "a", "n", "d", " ", "{", "x", "}", ".">>
      [] style = "quoted" -> <<"S", "a", "y", " ", "\"", "n", "o", "\"", ".">>
      [] style = "comma" -> <<"S", "e", "t", "s", " ", "{", "1", ",", "2", ",", "}", " ", "e", "n", "d", ".">>
      [] OTHER -> <<"S", "e", "e", " ", "h", "t", "t", "p", ":", "/", "/", "x", ".", "y", " ", "n", "o", "w", ".">>

\* the n-th record of an error array, every field given in canonical form
ErrorRecord(n, style) ==
    JObj(<< <<kQuestion, JNum(n)>>,
            <<kYourAnswer, JStr(<<"x", " ", "=", " ", "2">>)>>,
            <<kCorrectAnswer, JStr(<<"x", " ", "=", " ", "3">>)>>,
            <<kTopic, JStr(<<"A", "l", "g", "e", "b", "r", "a">>)>>,
            <<kFeedback, JStr(FeedbackText(style))>>,
            <<kMarksReceived, JNum(3)>>,
            <<kTotalMarks, JNum(5)>>,
            <<kCorrectness, JStr(sPartiallyCorrect)>> >>)

ErrorRecords(in) == [n \in 1..in.nRec |-> ErrorRecord(n, in.style)]

ErrorCuts == {"open", "after_question", "in_answer", "no_close"}

CutError(rec, cut) ==
    LET upto(n) == LET r == Render(JObj(SubSeq(rec.v, 1, n))) IN SubSeq(r, 1, Len(r) - 1)
    IN CASE cut = "open" -> <<"{">>
         [] cut = "after_question" -> upto(1)
         [] cut = "in_answer" -> upto(1) \o <<",">> \o RenderString(kYourAnswer) \o <<":", DQ, "x">>
         [] OTHER -> upto(Len(rec.v))

\* how the correctness of a record is written: not at all, or as this word
CorrectnessWords ==
    <<<<"m", "a", "y", "b", "e">>, <<"C", "o", "r", "r", "e", "c", "t">>, <<"w", "r", "o", "n", "g">>, <<" ", "p", "a", "r", "t", "i", "a", "l", " ">>>>

\* a record with the marks m, t (-1: the field is absent) under the
\* camelCase keys or the snake_case aliases, and the correctness word w
\* (0: the field is absent)
MarksRecord(in) ==
    JObj(<< <<kQuestion, JNum(1)>> >>
         \o (IF in.mr = -1 THEN <<>>
             ELSE << <<IF in.snake THEN kMarksReceivedSnake ELSE kMarksReceived, JNum(in.mr)>> >>)
         \o (IF in.tm = -1 THEN <<>>
             ELSE << <<IF in.snake THEN kTotalMarksSnake ELSE kTotalMarks, JNum(in.tm)>> >>)
         \o (IF in.word = 0 THEN <<>>
             ELSE << <<kCorrectness, JStr(CorrectnessWords[in.word])>> >>))

\* an error array whose first element is a number and whose second element
\* is a well-formed record
MixedErrorsText ==
    Render(JArr(<< JNum(7),
                   JObj(<< <<kQuestion, JNum(2)>>,
                           <<kTopic, JStr(<<"A", "l", "g", "e", "b", "r", "a">>)>> >>) >>))

MidtermOtherTexts ==
    { <<>>,
      MixedErrorsText,
      <<"{", "\"", "e", "r", "r", "o", "r", "s", "\"", ":", " ", "\"", "o", "o", "p", "s", "\"", "}">>,
      <<"{", "\"", "e", "r", "r", "o", "r", "s", "\"", ":", " ", "[", "]", "}">>,
      <<"F", "o", "u", "n", "d", " ", "t", "h", "e", "s", "e", ":", " ", "[", "1", ",", " ", "2", "]">>,
      <<"{", "\"", "q", "u", "e", "s", "t", "i", "o", "n", "\"", ":", "7", ",", "\"", "s", "t", "a", "t", "u", "s", "\"", ":", "\"", "r", "i", "g", "h", "t", "\"", "}">>,
      <<"[", "{", "\"", "q", "u", "e", "s", "t", "i", "o", "n", "\"", ":", "1", ",", "\"", "m", "a", "r", "k", "s", "R", "e", "c", "e", "i", "v", "e", "d", "\"", ":", "\"", "3", "\"", ",", "\"", "t", "o", "t", "a", "l", "M", "a", "r", "k", "s", "\"", ":", "\"", "5", "\"", "}", "]">>,
      <<"[", "{", "\"", "q", "u", "e", "s", "t", "i", "o", "n", "\"", ":", "1", " ", "\"", "x", "\"", "}", ",", "{", "\"", "q", "u", "e", "s", "t", "i", "o", "n", "\"", ":", "2", "}", "]">>,
      <<"Q", "u", "e", "s", "t", "i", "o", "n", ":", " ", "1", " ", "y", "o", "u", "r", "A", "n", "s", "w", "e", "r", ":", " ", "x", " ", "c", "o", "r", "r", "e", "c", "t", "A", "n", "s", "w", "e", "r", ":", " ", "y", " ", "t", "o", "p", "i", "c", ":", " ", "z", " ", "f", "e", "e", "d", "b", "a", "c", "k", ":", " ", "g", "o", "o", "d", "\n", "q", "u", "e", "s", "t", "i", "o", "n", " ", "2", " ", "y", "o", "u", "r", "a", "n", "s", "w", "e", "r", " ", "a", " ", "c", "o", "r", "r", "e", "c", "t", "a", "n", "s", "w", "e", "r", " ", "b", " ", "t", "o", "p", "i", "c", " ", "c", " ", "f", "e", "e", "d", "b", "a", "c", "k", " ", "d">>,
      <<"N", "o", " ", "e", "r", "r", "o", "r", "s", " ", "w", "e", "r", "e", " ", "f", "o", "u", "n", "d", " ", "i", "n", " ", "t", "h", "i", "s", " ", "e", "x", "a", "m", ".">> }

MidtermInputs ==
    [schema : {"errors"}, family : {"complete"}, nRec : 1..MaxRecords,
     style : FeedbackStyles, wrap : Wraps, cut : {"none"}]
    \cup
    [schema : {"errors"}, family : {"truncated"}, nRec : 1..MaxRecords, style : {"plain"},
     wrap : {"bare", "prose"}, cut : ErrorCuts]
    \cup
    [schema : {"errors"}, family : {"marks"}, mr : -1..MaxMarks, tm : -1..MaxMarks,
     snake : BOOLEAN, word : 0..Len(CorrectnessWords)]
    \cup
    [schema : {"errors"}, family : {"other"}, other : MidtermOtherTexts]

MidtermText(in) ==
    CASE in.family = "complete" -> CompleteText(in.wrap, kErrors, ErrorRecords(in))
      [] in.family = "truncated" ->
           TruncatedText(in.wrap, kErrors, ErrorRecords(in),
                         CutError(ErrorRecords(in)[in.nRec], in.cut))
      [] in.family = "marks" -> Render(JArr(<<MarksRecord(in)>>))
      [] OTHER -> in.other

(***************************************************************************)
(* parse_midterm_analysis as a state machine                               *)
(***************************************************************************)
\* the handler of lines 378-380 re-raising instead of returning []
OuterExceptPropagates ==
    /\ pc' = "raised"
    /\ UNCHANGED <<result, strategy>>

\* lines 378-380: except Exception: return []
OuterExcept == Return(<<>>, "exception")

\* lines 231-250
FindJson ==
    /\ pc = "find_json"
    /\ json_str' = FindJsonStr(text)
    /\ pc' = IF json_str' # <<>> THEN "parse_json" ELSE "structured_text"
    /\ UNCHANGED <<input, text, result, strategy, scan_i, passes, rand_questions, q_i>>

\* lines 251-345
ParseJson ==
    /\ pc = "parse_json"
    /\ LET fixed == _fix_json(json_str)
           r == Loads(fixed)
           n == NormalizeAll(r.val)
       IN /\ json_str' = fixed
          /\ IF ~r.ok THEN Goto("broken_json")
             ELSE IF n.raised THEN OuterExcept
             ELSE IF n.errors # <<>> THEN Return(n.errors, "json")
             ELSE Goto("structured_text")
    /\ UNCHANGED <<input, text, scan_i, passes, rand_questions, q_i>>

\* lines 346-349
BrokenJson ==
    /\ pc = "broken_json"
    /\ LET errors == _extract_errors_from_broken_json(json_str)
       IN IF errors # <<>> THEN Return(errors, "broken_json") ELSE Goto("structured_text")
    /\ UNCHANGED <<input, text, json_str, scan_i, passes, rand_questions, q_i>>

\* lines 351-376
StructuredText ==
    /\ pc = "structured_text"
    /\ LET errors == _extract_structured_text(text)
       IN IF errors # <<>> THEN Return(errors, "structured_text")
          ELSE Return(<<>>, "no_errors")
    /\ UNCHANGED <<input, text, json_str, scan_i, passes, rand_questions, q_i>>

InitMidterm ==
    /\ input \in MidtermInputs
    /\ text = MidtermText(input)
    /\ pc = "find_json"
    /\ json_str = <<>>
    /\ result = <<>>
    /\ strategy = "pending"
    /\ scan_i = 0
    /\ passes = 0
    /\ rand_questions = <<>>
    /\ q_i = 0

NextMidterm ==
    \/ FindJson
    \/ ParseJson
    \/ BrokenJson
    \/ StructuredText

SpecMidterm == InitMidterm /\ [][NextMidterm]_vars

(***************************************************************************)
(* Both parsers on every completion, whatever schema it was written for    *)
(***************************************************************************)
TextOf(in) == IF in.schema = "quiz" THEN QuizText(in) ELSE MidtermText(in)

InitParse ==
    /\ input \in QuizInputs \cup MidtermInputs
    /\ text = TextOf(input)
    /\ pc \in {"strategy1", "find_json"}
    /\ json_str = <<>>
    /\ result = <<>>
    /\ strategy = "pending"
    /\ scan_i = 0
    /\ passes = 0
    /\ rand_questions = <<>>
    /\ q_i = 0

NextParse == NextQuiz \/ NextMidterm

SpecParse == InitParse /\ [][NextParse]_vars

(***************************************************************************)
(* _extract_questions_from_broken_json as a state machine: one action per  *)
(* iteration of its while loop, one for what follows the loop.  scan_i is  *)
(* the 1-based index of the character at hand (Python's i + 1), result is  *)
(* the list questions.                                                     *)
(***************************************************************************)
\* lines 595-667, one iteration
ScanStep ==
    /\ pc = "scan"
    /\ scan_i <= Len(text)
    /\ IF text[scan_i] = "{"
       THEN LET n == SalvageAt(text, scan_i, result)
            IN scan_i' = n.i /\ result' = n.questions
       ELSE scan_i' = scan_i + 1 /\ UNCHANGED result
    /\ UNCHANGED <<input, text, pc, json_str, strategy, passes, rand_questions, q_i>>

\* lines 669-705
RegexFallback ==
    /\ pc = "scan"
    /\ scan_i > Len(text)
    /\ IF result = <<>>
       THEN result' = RegexPass(text, 1, 1, <<>>) /\ strategy' = "regex"
       ELSE UNCHANGED result /\ strategy' = "balanced"
    /\ pc' = "done"
    /\ UNCHANGED <<input, text, json_str, scan_i, passes, rand_questions, q_i>>

SalvageInputs ==
    {in \in QuizInputs :
        \/ in.family = "other"
        \/ /\ in.family = "truncated"
           /\ in.nOpt = 2
           /\ ~in.long
        \/ /\ in.family = "complete"
           /\ in.nOpt = 2
           /\ ~in.long
           /\ in.wrap = "bare"}

InitSalvage ==
    /\ input \in SalvageInputs
    /\ text = QuizText(input)
    /\ pc = "scan"
    /\ json_str = <<>>
    /\ result = <<>>
    /\ strategy = "pending"
    /\ scan_i = 1
    /\ passes = 0
    /\ rand_questions = <<>>
    /\ q_i = 0

NextSalvage == ScanStep \/ RegexFallback

SpecSalvage == InitSalvage /\ [][NextSalvage]_vars

(***************************************************************************)
(* _fix_json applied, and applied again to its own output                  *)
(***************************************************************************)
MaxFixLen == 4
MaxPasses == 2

FixAlphabet == {",", "}", "]", "[", SP, NL, "/", DQ, "a"}

\* every text of length at most n over FixAlphabet
RECURSIVE TextsUpTo(_)
TextsUpTo(n) ==
    IF n = 0 THEN {<<>>}
    ELSE LET shorter == TextsUpTo(n - 1)
         IN shorter \cup {Append(t, c) : t \in shorter, c \in FixAlphabet}

FixInputs == {in \in MidtermInputs : in.family = "complete" /\ in.wrap = "bare"}

\* text is the argument of the first call, result the latest output,
\* json_str the output before it
FixJson ==
    /\ pc = "fix"
    /\ passes < MaxPasses
    /\ result' = _fix_json(IF passes = 0 THEN text ELSE result)
    /\ json_str' = result
    /\ passes' = passes + 1
    /\ UNCHANGED <<input, text, pc, strategy, scan_i, rand_questions, q_i>>

InitFix ==
    /\ \/ /\ input = [schema |-> "text", family |-> "short"]
          /\ text \in TextsUpTo(MaxFixLen)
       \/ /\ input \in FixInputs
          /\ text = TextOf(input)
    /\ pc = "fix"
    /\ json_str = <<>>
    /\ result = <<>>
    /\ strategy = "pending"
    /\ scan_i = 0
    /\ passes = 0
    /\ rand_questions = <<>>
    /\ q_i = 0

NextFix == FixJson

SpecFix == InitFix /\ [][NextFix]_vars

(***************************************************************************)
(* main.randomize_question_options                                         *)
(***************************************************************************)
\* line 329
OptionIds == <<"a", "b", "c", "d", "e", "f">>

\* s contains the text lit
Contains(s, lit) == \E k \in 1..Len(s) : StartsAt(s, k, lit)

\* '"options" in question' (line 306): "raise" is the TypeError of a value
\* that supports no membership test
OptionsIn(question) ==
    CASE question.t = "obj" -> IF HasKey(question, kOptions) THEN "yes" ELSE "no"
      [] question.t = "str" -> IF Contains(question.v, kOptions) THEN "yes" ELSE "no"
      [] question.t = "arr" ->
           IF \E k \in 1..Len(question.v) : question.v[k] = JStr(kOptions) THEN "yes" ELSE "no"
      [] OTHER -> "raise"

\* FindCorrect that takes the first option for the correct one when no
\* option has the id original_correct
FindCorrectOrFirst(options, original_correct) ==
    IF \E k \in 1..Len(options) :
          IsDict(options[k]) /\ Get(options[k], kId, Null) = original_correct
    THEN FirstIn({k \in 1..Len(options) :
                    IsDict(options[k]) /\ Get(options[k], kId, Null) = original_correct})
    ELSE 1

\* lines 314-318: index of the first option whose id is original_correct
FindCorrect(options, original_correct) ==
    FirstIn({k \in 1..Len(options) : IsDict(options[k]) /\ Get(options[k], kId, Null) = original_correct})

\* lines 332-333 stop with an exception at the first position that has no
\* entry in option_ids (IndexError) or holds no dict (TypeError); 0: none
RelabelFailure(shuffled_options) ==
    FirstIn({k \in 1..Len(shuffled_options) : k > Len(OptionIds) \/ ~IsDict(shuffled_options[k])})

\* lines 305-338 for one question whose shuffle gives the permutation perm:
\* shuffled_options[j] is options[perm[j]]
ShuffleQuestion(question, perm) ==
    LET options == Get(question, kOptions, Null).v
        original_correct == Get(question, kCorrectAnswer, JStr(<<"a">>))
        correct == FindCorrect(options, original_correct)
        shuffled_options == [j \in 1..Len(options) |-> options[perm[j]]]
        idx == FindCorrect(shuffled_options, original_correct)
        fail == RelabelFailure(shuffled_options)
        PosOf(m) == CHOOSE j \in 1..Len(options) : perm[j] = m
        relabelled == [j \in 1..Len(options) |->
                         Put(shuffled_options[j], kId, JStr(<<OptionIds[j]>>))]
        \* the option dicts are shared with question["options"]: those
        \* relabelled before the exception stay relabelled
        partly == [m \in 1..Len(options) |->
                     IF PosOf(m) < fail
                     THEN Put(options[m], kId, JStr(<<OptionIds[PosOf(m)]>>))
                     ELSE options[m]]
    IN IF OptionsIn(question) = "raise" \/ (OptionsIn(question) = "yes" /\ ~IsDict(question))
       THEN [raised |-> TRUE, question |-> question]
       ELSE IF OptionsIn(question) = "no"
               \/ ~IsList(Get(question, kOptions, Null))
               \/ ~(Len(options) > 1)
               \/ correct = 0
               \/ ~Truthy(options[correct])
       THEN [raised |-> FALSE, question |-> question]
       ELSE IF fail # 0
       THEN [raised |-> TRUE, question |-> Put(question, kOptions, JArr(partly))]
       ELSE [raised |-> FALSE,
             question |-> Put(Put(question, kCorrectAnswer, JStr(<<OptionIds[idx]>>)),
                              kOptions, JArr(relabelled))]

\* the permutations random.shuffle can produce for the options of question
Shuffles(question) ==
    IF IsDict(question) /\ IsList(Get(question, kOptions, Null))
    THEN Permutations(1..Len(Get(question, kOptions, Null).v))
    ELSE {<<>>}

\* RandomizeQuestion for a loop that leaves out the last option of a
\* question with a correctAnswer
WithoutLastOption(question) ==
    IF IsDict(question) /\ HasKey(question, kCorrectAnswer)
    THEN Put(question, kOptions,
             JArr(SubSeq(Get(question, kOptions, Null).v, 1,
                         Len(Get(question, kOptions, Null).v) - 1)))
    ELSE question

RandomizeQuestionLosingOption ==
    /\ pc = "randomize"
    /\ q_i <= Len(rand_questions)
    /\ \E perm \in Shuffles(rand_questions[q_i]) :
          LET r == ShuffleQuestion(rand_questions[q_i], perm)
          IN /\ rand_questions' =
                   [rand_questions EXCEPT
                      ![q_i] = IF r.raised THEN r.question ELSE WithoutLastOption(r.question)]
             /\ IF r.raised
                THEN pc' = "raised" /\ UNCHANGED q_i
                ELSE q_i' = q_i + 1 /\ UNCHANGED pc
    /\ UNCHANGED <<input, text, json_str, result, strategy, scan_i, passes>>

\* lines 304-338, one iteration of the outer for loop
RandomizeQuestion ==
    /\ pc = "randomize"
    /\ q_i <= Len(rand_questions)
    /\ \E perm \in Shuffles(rand_questions[q_i]) :
          LET r == ShuffleQuestion(rand_questions[q_i], perm)
          IN /\ rand_questions' = [rand_questions EXCEPT ![q_i] = r.question]
             /\ IF r.raised
                THEN pc' = "raised" /\ UNCHANGED q_i
                ELSE q_i' = q_i + 1 /\ UNCHANGED pc
    /\ UNCHANGED <<input, text, json_str, result, strategy, scan_i, passes>>

\* line 340
ReturnQuestions ==
    /\ pc = "randomize"
    /\ q_i > Len(rand_questions)
    /\ pc' = "returned"
    /\ result' = rand_questions
    /\ UNCHANGED <<input, text, json_str, strategy, scan_i, passes, rand_questions, q_i>>

(***************************************************************************)
(* generate_quiz_from_errors: the validation loop over the randomized      *)
(* questions (main.py lines 607-681)                                       *)
(***************************************************************************)
Alphabet == <<"a", "b", "c", "d", "e", "f", "g", "h", "i", "j", "k", "l", "m",
              "n", "o", "p", "q", "r", "s", "t", "u", "v", "w", "x", "y", "z">>

UpperAlphabet == <<"A", "B", "C", "D", "E", "F", "G", "H", "I", "J", "K", "L", "M",
                   "N", "O", "P", "Q", "R", "S", "T", "U", "V", "W", "X", "Y", "Z">>

\* str.upper() of the ids the loop makes
Upper(c) ==
    IF \E k \in 1..Len(Alphabet) : Alphabet[k] = c
    THEN UpperAlphabet[CHOOSE k \in 1..Len(Alphabet) : Alphabet[k] = c]
    ELSE c

UpperSeq(s) == [i \in 1..Len(s) |-> Upper(s[i])]

\* chr(97 + n) if n < 26 else str(n)
CanonicalId(n) == IF n < Len(Alphabet) THEN <<Alphabet[n + 1]>> ELSE RenderNat(n)

\* line 612
MinTextLen == 10

\* line 611
QuestionTextOf(q) == Or(Or(Get(q, kText, Null), Get(q, kQuestion, Null)), JStr(<<>>))

\* what 'for opt in options' goes through: the elements of a list, the
\* characters of a string, the keys of a dict
OptionItems(options) ==
    CASE IsList(options) -> options.v
      [] IsString(options) -> [k \in 1..Len(options.v) |-> JStr(<<options.v[k]>>)]
      [] OTHER -> [k \in 1..Len(options.v) |-> JStr(options.v[k][1])]

\* lines 633-643: opt_id is the id the option is given
OptionWithId(opt, opt_id) ==
    JObj(<< <<kId, opt_id>>,
            <<kText, Or(Or(Get(opt, kText, Null), Get(opt, kId, Null)),
                        JStr(<<"O", "p", "t", "i", "o", "n", " ">> \o UpperSeq(PyStr(opt_id))))>> >>)

\* lines 629-657: valid_options after opt
NormalizeOption(opt, valid_options) ==
    IF IsDict(opt)
    THEN IF HasKey(opt, kText) \/ HasKey(opt, kId)
         THEN Append(valid_options,
                     OptionWithId(opt, Or(Get(opt, kId, Null),
                                          JStr(CanonicalId(Len(valid_options))))))
         ELSE valid_options
    ELSE IF IsString(opt)
    THEN Append(valid_options,
                JObj(<< <<kId, JStr(CanonicalId(Len(valid_options)))>>, <<kText, opt>> >>))
    ELSE valid_options

\* the for loop of line 629 from the k-th item on
RECURSIVE ValidOptions(_, _, _)
ValidOptions(items, k, valid_options) ==
    IF k > Len(items) THEN valid_options
    ELSE ValidOptions(items, k + 1, NormalizeOption(items[k], valid_options))

\* the first topic of the request; the handler refuses a request without
\* topics (lines 541-544)
FirstTopic == <<"M", "a", "t", "h">>

\* lines 666-675; n is len(validated_questions)
ValidatedQuestion(q, question_text, valid_options, n) ==
    JObj(<< <<kId, Or(Get(q, kId, Null), JStr(RenderNat(n + 1)))>>,
            <<kText, JStr(Strip(question_text.v))>>,
            <<kOptions, JArr(valid_options)>>,
            <<kCorrectAnswer, Or(Or(Get(q, kCorrectAnswer, Null),
                                    Get(q, kCorrectAnswerSnake, Null)),
                                 Get(valid_options[1], kId, JStr(<<"a">>)))>>,
            <<kExplanation, Or(Get(q, kExplanation, Null), JStr(<<>>))>>,
            <<kTopic, Or(Get(q, kTopic, Null), JStr(FirstTopic))>> >>)

Skipped == [raised |-> FALSE, kept |-> FALSE, question |-> Null]

ValidationRaised == [raised |-> TRUE, kept |-> FALSE, question |-> Null]

\* lines 659-676
KeepIfEnoughOptions(q, question_text, valid_options, n) ==
    IF Len(valid_options) < 2 THEN Skipped
    ELSE [raised |-> FALSE, kept |-> TRUE,
          question |-> ValidatedQuestion(q, question_text, valid_options, n)]

\* lines 619-663: len() of a number or a boolean is a TypeError
ValidateOptions(q, question_text, options, n) ==
    IF ~Truthy(options) THEN Skipped
    ELSE IF ~(IsList(options) \/ IsString(options) \/ IsDict(options)) THEN ValidationRaised
    ELSE IF Len(options.v) < 2 THEN Skipped
    ELSE KeepIfEnoughOptions(q, question_text,
                             ValidOptions(OptionItems(options), 1, <<>>), n)

\* lines 611-616: .strip() of a value that is no string is an AttributeError
ValidateText(q, question_text, n) ==
    IF ~Truthy(question_text) THEN Skipped
    ELSE IF ~IsString(question_text) THEN ValidationRaised
    ELSE IF Len(Strip(question_text.v)) < MinTextLen THEN Skipped
    ELSE ValidateOptions(q, question_text, Get(q, kOptions, JArr(<<>>)), n)

\* one iteration of the loop of line 609: q.get of a value that is no dict
\* is an AttributeError
ValidateQuestion(q, n) ==
    IF ~IsDict(q) THEN ValidationRaised ELSE ValidateText(q, QuestionTextOf(q), n)

\* the loop of lines 609-676 from the i-th parsed question on
RECURSIVE ValidateFrom(_, _, _)
\* r is what the iteration for parsed_questions[i] gave
ValidateNext(parsed_questions, i, validated_questions, r) ==
    IF r.raised THEN [raised |-> TRUE, questions |-> validated_questions]
    ELSE ValidateFrom(parsed_questions, i + 1,
                      IF r.kept THEN Append(validated_questions, r.question)
                      ELSE validated_questions)

ValidateFrom(parsed_questions, i, validated_questions) ==
    IF i > Len(parsed_questions) THEN [raised |-> FALSE, questions |-> validated_questions]
    ELSE ValidateNext(parsed_questions, i, validated_questions,
                      ValidateQuestion(parsed_questions[i], Len(validated_questions)))

\* v is the outcome of the loop: an exception leaves the handler (line 540)
Validated(v) ==
    IF v.raised
    THEN pc' = "raised" /\ UNCHANGED result
    ELSE pc' = "validated" /\ result' = v.questions

\* lines 607-681
ValidateQuestions ==
    /\ pc = "returned"
    /\ Validated(ValidateFrom(result, 1, <<>>))
    /\ UNCHANGED <<input, text, json_str, strategy, scan_i, passes, rand_questions, q_i>>

(***************************************************************************)
(* Question lists handed to the randomizer: what parse_quiz_questions      *)
(* can return (main.py lines 429-433, 601-605, 2314-2317)                  *)
(***************************************************************************)
MaxShuffle == 7

RandForms == {"objects", "strings", "mixed", "dup_ids", "no_match", "no_answer",
              "text_only", "short_text", "string_first"}

\* the k-th option of a question of the form form
RandOption(k, form) ==
    CASE form = "strings" -> JStr(OptionText(k, TRUE))
      [] form = "mixed" /\ k = 1 -> JStr(OptionText(k, TRUE))
      [] form = "string_first" /\ k = 1 -> JStr(OptionText(k, TRUE))
      [] form = "string_first" ->
           JObj(<< <<kId, JStr(<<Letters[k - 1]>>)>>, <<kText, JStr(OptionText(k, TRUE))>> >>)
      [] form = "dup_ids" /\ k = 2 ->
           JObj(<< <<kId, JStr(<<Letters[1]>>)>>, <<kText, JStr(OptionText(k, TRUE))>> >>)
      [] form = "text_only" -> JObj(<< <<kText, JStr(OptionText(k, TRUE))>> >>)
      [] OTHER -> QuizOption(k, TRUE)

\* a question with n options of which the c-th is the correct one
RandQuestion(id, n, c, form) ==
    JObj(<< <<kId, JStr(RenderNat(id))>>,
            <<kText, JStr(IF form = "short_text" THEN <<" ", "2", "+", "2", "?", " ">>
                          ELSE QuestionText("plain"))>>,
            <<kOptions, JArr([k \in 1..n |-> RandOption(k, form)])>> >>
         \o (IF form = "no_answer" THEN <<>>
             ELSE << <<kCorrectAnswer,
                       JStr(<<IF form = "no_match" THEN "z" ELSE Letters[c]>>)>> >>)
         \o << <<kExplanation, Get(ExampleRecord, kExplanation, Null)>>,
               <<kTopic, JStr(sGeneral)>> >>)

RandInputs ==
    [schema : {"rand"}, family : {"objects"}, n : 2..4, c : {1, 2}, second : BOOLEAN]
    \cup
    [schema : {"rand"}, family : {"objects"}, n : 5..MaxShuffle, c : {1}, second : {FALSE}]
    \cup
    [schema : {"rand"}, family : RandForms \ {"objects"}, n : 2..3, c : {1, 2}, second : BOOLEAN]
    \cup
    [schema : {"rand"}, family : {"scalar", "one_option"}, n : {1}, c : {1}, second : BOOLEAN]

\* the list the call is given
RandQuestions(in) ==
    (CASE in.family = "scalar" -> <<JNum(1)>>
       [] in.family = "one_option" -> <<RandQuestion(1, 1, 1, "objects")>>
       [] OTHER -> <<RandQuestion(1, in.n, in.c, in.family)>>)
    \o (IF in.second THEN <<RandQuestion(2, 2, 2, "objects")>> ELSE <<>>)

InitRand ==
    /\ input \in RandInputs
    /\ text = <<>>
    /\ pc = "randomize"
    /\ json_str = <<>>
    /\ result = <<>>
    /\ strategy = "pending"
    /\ scan_i = 0
    /\ passes = 0
    /\ rand_questions = RandQuestions(input)
    /\ q_i = 1

NextRand == RandomizeQuestion \/ ReturnQuestions \/ ValidateQuestions

SpecRand == InitRand /\ [][NextRand]_vars

(***************************************************************************)
(* Properties.  rec is a record as the response gives it, out the record   *)
(* returned for it.                                                        *)
(***************************************************************************)
\* every field rec gives is a field of out with the same value
GivenFieldsKept(rec, out) ==
    /\ IsDict(out)
    /\ \A k \in 1..Len(rec.v) : Get(out, rec.v[k][1], Null) = rec.v[k][2]

\* out holds one record per record of recs, in order, the given fields kept
RecordsRecovered(recs, out) ==
    /\ Len(out) = Len(recs)
    /\ \A n \in 1..Len(recs) : GivenFieldsKept(recs[n], out[n])

\* C1: for a valid, complete array of quiz-question records embedded
\* anywhere in prose, parse_quiz_questions returns exactly the elements of
\* the array, in order and with the same count, whatever the number of
\* records and of options per record.
C1_CompleteQuizArrayRecovered ==
    (pc = "done" /\ input.family = "complete")
        => RecordsRecovered(QuizRecords(input), result)

\* C2: for a valid, complete array of assessment-error records embedded
\* anywhere in prose, parse_midterm_analysis returns one normalized record
\* per element, in order, the given field values unchanged, wherever the
\* array sits and whatever characters its strings contain.
C2_CompleteErrorArrayRecovered ==
    (pc = "done" /\ input.family = "complete")
        => RecordsRecovered(ErrorRecords(input), result)

\* C3: for a quiz array of N records truncated inside its N-th record, the
\* salvage scan returns exactly the N-1 complete records before it, in
\* order, and nothing derived from the incomplete last record.
C3_SalvageDropsIncompleteRecord ==
    (pc = "done" /\ input.family = "truncated")
        => RecordsRecovered(SubSeq(QuizRecords(input), 1, input.nRec - 1), result)

\* C4: for an error array of N records truncated inside its N-th record,
\* parse_midterm_analysis returns exactly the N-1 complete records before
\* it and drops the incomplete last one.
C4_MidtermDropsIncompleteRecord ==
    (pc = "done" /\ input.family = "truncated")
        => RecordsRecovered(SubSeq(ErrorRecords(input), 1, input.nRec - 1), result)

\* the text {"a": "}"} of the scanner's example
BraceInString == <<"{", DQ, "a", DQ, ":", " ", DQ, "}", DQ, "}">>

\* the records of the array of input that are complete in the text
CompleteRecords(in) ==
    IF in.family = "complete" THEN QuizRecords(in)
    ELSE IF in.family = "truncated" THEN SubSeq(QuizRecords(in), 1, in.nRec - 1)
    ELSE <<>>

\* the index in the text of the '{' that opens the k-th record: after the
\* wrapping, the '[', and the records before it with their commas
RecordStart(in, k) ==
    Len(WrapPrefix(in.wrap, kQuestions)) + 1
    + Len(Concat([n \in 1..(k - 1) |-> Render(QuizRecords(in)[n]) \o <<",">>])) + 1

\* the index of the '}' that closes the k-th record
RecordEnd(in, k) == RecordStart(in, k) + Len(Render(QuizRecords(in)[k])) - 1

\* C5: the brace scanner never treats a brace inside a double-quoted string
\* (escaped quotes included) as a structural delimiter: started at the '{'
\* of a record, the scan step closes the span at the '}' that matches it
\* and goes on behind it with the record salvaged; started on the text
\* {"a": "}"} it takes the whole text, 10 characters, as the span.
C5_ScanClosesAtMatchingBrace ==
    [][ /\ \A k \in 1..Len(CompleteRecords(input)) :
              (pc = "scan" /\ scan_i = RecordStart(input, k))
                  => /\ scan_i' = RecordEnd(input, k) + 1
                     /\ Len(result') = k
                     /\ GivenFieldsKept(QuizRecords(input)[k], result'[k])
        /\ (pc = "scan" /\ scan_i = 1 /\ text = BraceInString)
              => scan_i' = Len(text) + 1
      ]_vars

\* C5: the scan has passed a record whose text holds an escaped quote and a
\* brace, and has salvaged it
C5_Witness ==
    /\ input.family = "complete"
    /\ input.style = "quoted"
    /\ pc = "scan"
    /\ scan_i = RecordEnd(input, 1) + 1
    /\ Len(result) = 1

\* the text of option opt
OptionTextOf(opt) == Get(opt, kText, Null)

\* the text of the option of question that its correctAnswer names
ReferencedText(question) ==
    LET options == Get(question, kOptions, Null).v
        k == FindCorrect(options, Get(question, kCorrectAnswer, JStr(<<"a">>)))
    IN IF k = 0 THEN Null ELSE OptionTextOf(options[k])

\* the options of before and of after hold the same texts, each as often
SameOptionTexts(before, after) ==
    LET b == Get(before, kOptions, Null).v
        a == Get(after, kOptions, Null).v
        Count(opts, t) == Cardinality({k \in 1..Len(opts) : OptionTextOf(opts[k]) = t})
    IN /\ Len(a) = Len(b)
       /\ \A k \in 1..Len(b) : Count(a, OptionTextOf(b[k])) = Count(b, OptionTextOf(b[k]))

\* C6: for every list of quiz records and every permutation of the shuffle,
\* randomize_question_options returns with, for each record, the multiset
\* of option texts preserved and correctAnswer naming an option with the
\* text of the option it named before.
C6_RandomizePreservesAnswer ==
    input.family = "objects"
        => /\ pc # "raised"
           /\ pc = "returned"
                 => \A k \in 1..Len(result) :
                       /\ SameOptionTexts(RandQuestions(input)[k], result[k])
                       /\ ReferencedText(result[k]) = ReferencedText(RandQuestions(input)[k])

\* C7: _fix_json is idempotent: applied to its own output it returns that
\* output.
C7_FixJsonIdempotent ==
    passes = 2 => result = json_str

\* C8: _fix_json never changes the meaning of valid JSON: its output parses
\* to the value the input parses to, also when strings contain a comma
\* before a closing brace or bracket, or the sequence //.
C8_FixJsonKeepsValidJson ==
    (passes = 1 /\ Loads(text).ok)
        => /\ Loads(result).ok
           /\ Loads(result).val = Loads(text).val

\* C9: for every input text, parse_quiz_questions and
\* parse_midterm_analysis return a list and never raise to the caller:
\* a call is at one of its strategies or has returned, and what it has
\* returned is a list; it is never left by an exception.
C9_ParsersNeverRaise ==
    /\ pc # "raised"
    /\ pc \in {"strategy1", "strategy2", "fallback", "strategy3", "strategy4", "strategy5",
               "find_json", "parse_json", "broken_json", "structured_text", "done"}
    /\ pc = "done" => result \in Seq({result[k] : k \in 1..Len(result)})

\* C9: the normalization loop raised and the outer handler returned []
C9_Witness ==
    /\ pc = "done"
    /\ strategy = "exception"
    /\ result = <<>>

\* C10: when the correctness field is absent or unrecognized, marks decide:
\* marksReceived >= totalMarks > 0 gives correct, 0 < marksReceived <
\* totalMarks gives partially_correct, marksReceived = 0 with totalMarks > 0
\* gives incorrect; both marks absent and no correctness given gives
\* incorrect.  Each marks field is given under one key, camelCase or alias.
C10_MarksDecideCorrectness ==
    (pc = "done" /\ input.family = "marks" /\ input.word \in {0, 1})
        => LET correctness == Get(result[1], kCorrectness, Null)
               mr == input.mr
               tm == input.tm
           IN /\ Len(result) = 1
              /\ (tm > 0 /\ mr >= tm) => correctness = JStr(sCorrect)
              /\ (0 < mr /\ mr < tm) => correctness = JStr(sPartiallyCorrect)
              /\ (mr = 0 /\ tm > 0) => correctness = JStr(sIncorrect)
              /\ (mr = -1 /\ tm = -1 /\ input.word = 0) => correctness = JStr(sIncorrect)

\* C10: a record with full marks and an unrecognized correctness word was
\* returned as correct
C10_Witness ==
    /\ pc = "done"
    /\ input.family = "marks"
    /\ input.word = 1
    /\ input.mr = MaxMarks
    /\ input.tm = MaxMarks
    /\ Len(result) = 1
    /\ Get(result[1], kCorrectness, Null) = JStr(sCorrect)

\* the three values a normalized correctness takes
CorrectnessValues == {JStr(sCorrect), JStr(sIncorrect), JStr(sPartiallyCorrect)}

\* C11: every record parse_midterm_analysis returns, on whichever path it
\* was recovered, has a correctness that is one of correct, incorrect,
\* partially_correct: it is never missing, null or another string.
C11_CorrectnessAlwaysResolved ==
    (pc = "done" /\ input.schema = "errors")
        => \A k \in 1..Len(result) :
              /\ IsDict(result[k])
              /\ HasKey(result[k], kCorrectness)
              /\ Get(result[k], kCorrectness, Null) \in CorrectnessValues

\* the id of some option of the record is its correctAnswer
AnswerResolves(question) ==
    \E j \in 1..Len(Get(question, kOptions, Null).v) :
        Get(Get(question, kOptions, Null).v[j], kId, Null) = Get(question, kCorrectAnswer, Null)

\* C12: in every quiz record that has passed the validation loop of
\* generate_quiz_from_errors, correctAnswer is the id of one of the
\* record's surviving options (a correctAnswer that matches none is rebound
\* to the first option's id).
C12_CorrectAnswerResolves ==
    pc = "validated" => \A k \in 1..Len(result) : AnswerResolves(result[k])

\* rec is what some '{'...'}' span of the text holds: the span decodes to
\* an object and rec has every field of it unchanged
FromCompleteSpan(s, rec) ==
    \E p \in {k \in 1..Len(s) : s[k] = "{"} :
        \E e \in {k \in (p + 1)..Len(s) : s[k] = "}"} :
            /\ Loads(SubSeq(s, p, e)).ok
            /\ IsDict(Loads(SubSeq(s, p, e)).val)
            /\ GivenFieldsKept(Loads(SubSeq(s, p, e)).val, rec)

\* C13: the salvage never includes a partial object: every record that
\* _extract_questions_from_broken_json returns is held by a '{'...'}' span
\* that is complete in the text; an object whose closing brace is missing
\* gives no record.
C13_NoPartialObjectSalvaged ==
    pc = "done" => \A k \in 1..Len(result) : FromCompleteSpan(text, result[k])

\* no option of the record can be located as the correct one: the options
\* are no list, or fewer than two, or none of them is an object whose id is
\* the record's correctAnswer
NotLocatable(question) ==
    /\ IsDict(question)
    /\ \/ ~IsList(Get(question, kOptions, Null))
       \/ Len(Get(question, kOptions, Null).v) < 2
       \/ ~\E j \in 1..Len(Get(question, kOptions, Null).v) :
              /\ IsDict(Get(question, kOptions, Null).v[j])
              /\ Get(Get(question, kOptions, Null).v[j], kId, Null)
                    = Get(question, kCorrectAnswer, JStr(<<"a">>))

\* C14: a record whose correct option randomize_question_options cannot
\* locate (id mismatch, options given as plain strings, fewer than 2
\* options) is left as it was: same options in the same order with the
\* same ids, same correctAnswer; and the call does not stop at it.
C14_UnlocatedRecordUnmodified ==
    /\ \A k \in 1..Len(rand_questions) :
          NotLocatable(RandQuestions(input)[k])
              => rand_questions[k] = RandQuestions(input)[k]
    /\ (pc = "raised" /\ q_i <= Len(rand_questions))
          => ~NotLocatable(RandQuestions(input)[q_i])
    /\ pc = "returned" => \A k \in 1..Len(result) :
          NotLocatable(RandQuestions(input)[k]) => result[k] = RandQuestions(input)[k]

\* C14: a record whose correctAnswer "z" is the id of none of its options
\* has been through the call, with a second record behind it
C14_Witness ==
    /\ pc = "returned"
    /\ input.family = "no_match"
    /\ input.second
    /\ NotLocatable(RandQuestions(input)[1])
    /\ result[1] = RandQuestions(input)[1]

\* C15: when the text holds a fenced block (with or without the tag json)
\* whose contents are a valid non-empty JSON array, parse_quiz_questions
\* returns exactly the elements of that array, whatever prose stands before
\* and after the fence; the scenario with one question about 2+2 gives
\* exactly that one record.
C15_FencedArrayReturned ==
    /\ (pc = "done" /\ input.schema = "quiz" /\ input.family = "complete"
        /\ input.wrap \in {"fenced_json", "fenced"})
          => result = QuizRecords(input)
    /\ (pc = "done" /\ input.schema = "quiz" /\ text = FencedExample)
          => result = <<ExampleRecord>>
    /\ (pc = "done" /\ input.schema = "quiz" /\ text = FencedFenceInText)
          => result = FenceInTextRecords

\* C15: the array of the 2+2 scenario has been returned from the fence
C15_Witness ==
    /\ pc = "done"
    /\ input.schema = "quiz"
    /\ text = FencedExample
    /\ strategy = "code_block"
    /\ result = <<ExampleRecord>>

\* C16: for the empty string both parse_quiz_questions and
\* parse_midterm_analysis return the empty list: no strategy produces a
\* record, nothing is raised to the caller, and the except handlers are not
\* entered.
C16_EmptyTextGivesEmptyList ==
    text = <<>> =>
        /\ pc # "raised"
        /\ pc = "done" => /\ result = <<>>
                          /\ strategy \in {"no_questions", "no_errors"}

\* C16: parse_quiz_questions has run all of its strategies on the empty string
C16_Witness ==
    /\ text = <<>>
    /\ pc = "done"
    /\ strategy = "no_questions"
    /\ result = <<>>

\* the stages of parse_quiz_questions in the order of the text of the function:
\* 1 fenced block, 2 array scan with its long-array fallback, 3 container key,
\* 4 per-record salvage, 5 plain-text heuristic; 6 stands for the final return []
StageOf(how) ==
    CASE how = "code_block" -> 1
      [] how \in {"array_scan", "long_array"} -> 2
      [] how = "questions_key" -> 3
      [] how = "salvage" -> 4
      [] how = "text" -> 5
      [] OTHER -> 6

\* lines 476-528: the scan's best list, else what the long-array fallback returns
ArrayStage(s, best_questions) ==
    IF best_questions # <<>> THEN best_questions ELSE LongArrayFallback(s).questions

\* what stage k returns on s, <<>> when it does not return
StageResult(s, k) ==
    CASE k = 1 -> CodeBlock(s).questions
      [] k = 2 -> ArrayStage(s, LargestArray(s, 1, <<>>))
      [] k = 3 -> QuestionsObject(s).questions
      [] k = 4 -> _extract_questions_from_broken_json(s)
      [] k = 5 -> _extract_questions_from_text(s)
      [] OTHER -> <<>>

ScanHasRun ==
    /\ pc = "done"
    /\ strategy \in {"array_scan", "long_array", "questions_key", "salvage", "text",
                     "no_questions"}

\* the span the bracket count of lines 437-446 gives the '[' at p, <<>> for none
BalancedSpan(s, p) ==
    IF BracketEnd(s, p) = 0 THEN <<>> ELSE SubSeq(s, p, BracketEnd(s, p))

\* the list a span parses to, directly or else after the repair pass; <<>>
\* when it does neither
ParsedList(jstr, r) ==
    IF r.ok THEN (IF IsList(r.val) THEN r.val.v ELSE <<>>)
    ELSE IF Loads(_fix_json(jstr)).ok /\ IsList(Loads(_fix_json(jstr)).val)
         THEN Loads(_fix_json(jstr)).val.v
         ELSE <<>>

\* the '[' positions of s with the non-empty list their balanced span parses to
ParsedCandidates(s) ==
    {c \in {[start |-> p, stop |-> BracketEnd(s, p),
              questions |-> ParsedList(BalancedSpan(s, p), Loads(BalancedSpan(s, p)))] :
                p \in {k \in 1..Len(s) : s[k] = "["}} : c.questions # <<>>}

\* res is the list of the candidate with the most elements, the first one in
\* the text among those with as many
MostElementsFirst(cands, res) ==
    \E c \in cands :
        /\ res = c.questions
        /\ \A d \in cands :
              /\ Len(d.questions) <= Len(c.questions)
              /\ d.start < c.start => Len(d.questions) < Len(c.questions)

\* the array scan returned res, or nothing when how is a later strategy
ScanReturned(cands, how, res) ==
    IF how = "array_scan" THEN MostElementsFirst(cands, res) ELSE cands = {}

LongCandidateList(jstr) ==
    IF Len(jstr) > MinArrayLen THEN TryParsed(jstr, Loads(jstr), <<>>) ELSE <<>>

LongCandidates(s) ==
    {c \in {[start |-> p, questions |-> LongCandidateList(BalancedSpan(s, p))] :
                p \in {k \in 1..Len(s) : s[k] = "["}} : c.questions # <<>>}

Nested(c, cands) ==
    \E d \in cands : d.start < c.start /\ c.stop < d.stop

\* res is the list of no candidate that lies inside another one
TopLevelOnly(cands, res) ==
    \A c \in cands : c.questions = res => ~Nested(c, cands)

\* C19: the array the array scan returns is a top-level array of the text,
\* never one that lies inside another candidate that parses, such as the
\* options list of a question inside the array of questions.
C19_ScanResultNotNested ==
    (pc = "done" /\ strategy = "array_scan") => TopLevelOnly(ParsedCandidates(text), result)

\* one character of a bracket count that passes over double-quoted strings
\* and their escapes
NeutralStep(st, c, j) ==
    IF st.escape_next THEN [st EXCEPT !.escape_next = FALSE]
    ELSE IF st.in_string
         THEN IF c = BSL THEN [st EXCEPT !.escape_next = TRUE]
              ELSE IF c = DQ THEN [st EXCEPT !.in_string = FALSE]
              ELSE st
    ELSE IF c = DQ THEN [st EXCEPT !.in_string = TRUE]
    ELSE IF c = "[" THEN [st EXCEPT !.depth = st.depth + 1]
    ELSE IF c = "]"
         THEN IF st.depth = 1 THEN [st EXCEPT !.depth = 0, !.end = j]
              ELSE [st EXCEPT !.depth = st.depth - 1]
    ELSE st

RECURSIVE NeutralFold(_, _, _, _)
NeutralFold(s, lo, hi, st) ==
    IF lo > hi \/ st.end # 0 THEN st
    ELSE IF lo = hi THEN NeutralStep(st, s[lo], lo)
    ELSE NeutralFold(s, ((lo + hi) \div 2) + 1, hi, NeutralFold(s, lo, (lo + hi) \div 2, st))

\* index of the ']' that matches the '[' at p when only string-neutral
\* brackets count, 0 when there is none
MatchingBracket(s, p) ==
    NeutralFold(s, p, Len(s),
                [depth |-> 0, in_string |-> FALSE, escape_next |-> FALSE, end |-> 0]).end

\* the '[' of s that stand outside double-quoted strings
NeutralStarts(s) ==
    {p \in 1..Len(s) :
        /\ s[p] = "["
        /\ ~NeutralFold(s, 1, p - 1,
                        [depth |-> 0, in_string |-> FALSE, escape_next |-> FALSE,
                         end |-> 0]).in_string}

\* the span the array pattern of parse_midterm_analysis selects ends at the
\* bracket that matches its '['
ArrayMatchBalanced(s, m) ==
    m.ok => m.stop = MatchingBracket(s, m.start)

\* C20: the bracket scan that delimits a candidate array does not count the
\* brackets inside double-quoted strings: in parse_quiz_questions the span of
\* every '[' start, and in parse_midterm_analysis the span of the array
\* pattern, ends at the ']' that matches its '[' at string-neutral positions.
C20_BracketScanSkipsStrings ==
    /\ ScanHasRun => \A p \in NeutralStarts(text) : BracketEnd(text, p) = MatchingBracket(text, p)
    /\ (pc = "done" /\ strategy \in {"json", "broken_json", "structured_text", "no_errors",
                                     "exception"})
          => ArrayMatchBalanced(text, ArrayMatch(text))

\* r is json.loads of a text that is one well-formed object whose key holds a
\* non-empty array of record objects
IsContainerOf(r, key) ==
    /\ r.ok
    /\ IsDict(r.val)
    /\ HasKey(r.val, key)
    /\ NonEmptyList(Get(r.val, key, Null))
    /\ \A k \in 1..Len(Get(r.val, key, Null).v) : IsDict(Get(r.val, key, Null).v[k])

\* parse_quiz_questions on a container text on which the fenced block and the
\* array scan give nothing returns the array under questions from the
\* container-key strategy
QuizContainerRead(s, r) ==
    (IsContainerOf(r, kQuestions) /\ StageResult(s, 1) = <<>> /\ StageResult(s, 2) = <<>>)
        => /\ strategy = "questions_key"
           /\ result = Get(r.val, kQuestions, Null).v

\* the array pattern of parse_midterm_analysis selects a span of s that parses
\* after the repair
ArrayStrategySucceeds(s, m) ==
    m.ok /\ Loads(_fix_json(SubSeq(s, m.start, m.stop))).ok

\* parse_midterm_analysis on a container text on which the array strategy
\* does not succeed returns the normalized records of the array under errors
MidtermContainerRead(s, r) ==
    (IsContainerOf(r, kErrors) /\ ~ArrayStrategySucceeds(s, ArrayMatch(s)))
        => result = NormalizeAll(r.val).errors

\* C21: when the text is a well-formed object with the container key of the
\* schema (questions, errors) whose value is a non-empty array of record
\* objects and no earlier strategy succeeds, the container-key strategy
\* parses the whole object and returns the elements of that array.
C21_ContainerKeyRead ==
    /\ (pc = "done" /\ ScanHasRun) => QuizContainerRead(text, Loads(text))
    /\ (pc = "done" /\ strategy \in {"json", "broken_json", "structured_text", "no_errors",
                                     "exception"})
          => MidtermContainerRead(text, Loads(text))

\* a record with a text key and an options list of at least 2 entries
HasTextAndTwoOptions(question) ==
    /\ IsDict(question)
    /\ HasKey(question, kText)
    /\ IsList(Get(question, kOptions, Null))
    /\ Len(Get(question, kOptions, Null).v) >= 2

\* C22: every record that _extract_questions_from_broken_json returns, from
\* the balanced-brace pass or from the regex pass, has a text key and an
\* options list with at least 2 entries.
C22_SalvagedRecordsHaveTwoOptions ==
    pc = "done" => \A k \in 1..Len(result) : HasTextAndTwoOptions(result[k])

\* the object options of the question carry pairwise different ids
GivenIdsDistinct(question) ==
    (IsDict(question) /\ IsList(Get(question, kOptions, Null)))
        => \A i, j \in 1..Len(Get(question, kOptions, Null).v) :
              (/\ i # j
               /\ IsDict(Get(question, kOptions, Null).v[i])
               /\ IsDict(Get(question, kOptions, Null).v[j])
               /\ HasKey(Get(question, kOptions, Null).v[i], kId))
                 => Get(Get(question, kOptions, Null).v[i], kId, Null)
                      # Get(Get(question, kOptions, Null).v[j], kId, JStr(<<>>))

\* the ids of the options of a validated question are pairwise different
OptionIdsDistinct(question) ==
    \A i, j \in 1..Len(Get(question, kOptions, Null).v) :
        i # j => Get(Get(question, kOptions, Null).v[i], kId, Null)
                   # Get(Get(question, kOptions, Null).v[j], kId, Null)

\* C23: in the normalization of generate_quiz_from_errors a string option
\* gets the next unused canonical id: when the object options of every
\* question carry different ids, the option ids of every validated question
\* are pairwise different, also where strings stand between object options.
C23_OptionIdsDistinct ==
    (pc = "validated" /\ \A k \in 1..Len(rand_questions) : GivenIdsDistinct(rand_questions[k]))
        => \A k \in 1..Len(result) : OptionIdsDistinct(result[k])

\* the normalized records of the elements of items that are well-formed, in
\* order
WellFormedErrors(items) ==
    Concat([k \in 1..Len(items) |->
               IF ErrorRaises(items[k]) THEN <<>> ELSE <<NormalizeError(items[k])>>])

\* r is json.loads of the repaired candidate: when it is an array, the call
\* returns its well-formed elements
OnlyViolatingDropped(r) ==
    (r.ok /\ IsList(r.val) /\ WellFormedErrors(r.val.v) # <<>>)
        => result = WellFormedErrors(r.val.v)

\* C24: a schema violation in one element of a parsed error array (an element
\* that is no object, marks that are no numbers) drops that element only:
\* parse_midterm_analysis returns the other elements, normalized and in
\* order, and no error reaches the caller.
C24_OnlyViolatingElementDropped ==
    /\ strategy \in {"json", "broken_json", "structured_text", "no_errors", "exception"}
          => pc # "raised"
    /\ (pc = "done" /\ strategy \in {"json", "broken_json", "structured_text", "no_errors",
                                     "exception"} /\ FindJsonStr(text) # <<>>)
          => OnlyViolatingDropped(Loads(_fix_json(FindJsonStr(text))))

\* the i-th option of the question carries the i-th letter and correctAnswer
\* is one of these letters
CanonicalOptionIds(question) ==
    /\ \A j \in 1..Len(Get(question, kOptions, Null).v) :
          Get(Get(question, kOptions, Null).v[j], kId, Null) = JStr(<<Alphabet[j]>>)
    /\ \E j \in 1..Len(Get(question, kOptions, Null).v) :
          Get(question, kCorrectAnswer, Null) = JStr(<<Alphabet[j]>>)

\* C25: whenever randomize_question_options reorders the options of a record
\* with k >= 2 options it completes without raising, the i-th option of the
\* result carries the i-th id of a, b, c, d, e, f, ... for every k, also for
\* k greater than 6, and correctAnswer is one of those ids.
C25_CanonicalIdsForEveryCount ==
    input.family = "objects"
        => /\ pc # "raised"
           /\ pc = "returned" => \A k \in 1..Len(result) : CanonicalOptionIds(result[k])

\* C26: the repair pass replaces every literal newline that no backslash
\* precedes by an escaped newline: the output of _fix_json holds no newline
\* character that is not immediately preceded by a backslash.
C26_NoBareNewlineAfterRepair ==
    passes >= 1 => \A k \in 1..Len(result) :
                      result[k] = NL => (k > 1 /\ result[k - 1] = BSL)

\* line 430: the '[' positions of the text, each of which line 434 tries
json_matches(s) == {k \in 1..Len(s) : s[k] = "["}

\* the number of iterations of the while loop of lines 595-667 that stand on
\* a '{' and scan for its closing brace, from index i on
RECURSIVE ObjectAttempts(_, _, _)
ObjectAttempts(s, i, n) ==
    IF {k \in i..Len(s) : s[k] = "{"} = {} THEN n
    ELSE ObjectAttempts(s, SalvageAt(s, Min({k \in i..Len(s) : s[k] = "{"}), <<>>).i, n + 1)

\* a budget of candidate starts for one call: as many as the model has
\* records in a text
ScanBudget == MaxRecords

\* C27: the number of delimiter scans of one extraction call stays within a
\* fixed budget, whatever the number of '[' and '{' in the text: the array
\* scan tries at most ScanBudget '[' starts and the salvage scans at most
\* ScanBudget '{' starts.
C27_ScanAttemptsWithinBudget ==
    /\ ScanHasRun => Cardinality(json_matches(text)) <= ScanBudget
    /\ (pc = "done" /\ strategy \in {"salvage", "text", "no_questions"})
          => ObjectAttempts(text, 1, 0) <= ScanBudget

\* the array scan tries one start for every '[' of the text: for a bare array
\* of records that is one for the array and one for the options of each record
ScanAttemptsGrow ==
    (ScanHasRun /\ input.family = "complete" /\ input.wrap = "bare")
        => Cardinality(json_matches(text)) = 1 + input.nRec

\* the index the iteration at hand leaves (lines 596-597, 665)
IndexAfterIteration(s, i, questions) ==
    IF s[i] = "{" THEN SalvageAt(s, i, questions).i ELSE i + 1

StrictlyWithin(lo, x, hi) == lo < x /\ x <= hi

\* the variant of the loop: wherever the loop stands, the iteration it runs
\* next leaves a larger index, at most one past the end of the text, so the
\* loop runs at most Len(text) iterations before the fallback returns
LoopLeavesPosition ==
    /\ pc = "scan" => scan_i \in 1..(Len(text) + 1)
    /\ (pc = "scan" /\ scan_i <= Len(text))
          => StrictlyWithin(scan_i, IndexAfterIteration(text, scan_i, result), Len(text) + 1)
    /\ pc = "done" => scan_i = Len(text) + 1

\* one iteration of the salvage loop moves the index forward, and a record
\* it appends was read from the span between the old index and the new one
ScanMovesOn ==
    (pc = "scan" /\ pc' = "scan")
        => /\ scan_i < scan_i'
           /\ scan_i' <= Len(text) + 1
           /\ (text[scan_i] # "{" \/ ScanObject(text, scan_i) = 0) => scan_i' = scan_i + 1
           /\ (text[scan_i] = "{" /\ ScanObject(text, scan_i) # 0)
                 => scan_i' = ScanObject(text, scan_i) + 1
           /\ result' # result
                 => /\ result' = Append(result, result'[Len(result')])
                    /\ text[scan_i] = "{"
                    /\ IsDict(Loads(SubSeq(text, scan_i, scan_i' - 1)).val)
                    /\ GivenFieldsKept(Loads(SubSeq(text, scan_i, scan_i' - 1)).val,
                                       result'[Len(result')])

\* C28: the salvage scan of _extract_questions_from_broken_json terminates on
\* every text: each iteration of its loop moves the index forward, by one
\* where the character is no '{' or the object never closes, to just past
\* the closing brace where it closes, so that no position is an object start
\* twice and the records are appended in text order from spans that do not
\* overlap.
C28_SalvageScanTerminates ==
    [](LoopLeavesPosition) /\ [][ScanMovesOn]_vars

\* C28: the scan has returned two records of a text whose last object never
\* closes
C28_Witness ==
    /\ pc = "done"
    /\ strategy = "balanced"
    /\ input.family = "truncated"
    /\ Len(result) >= 2
    /\ scan_i = Len(text) + 1

\* the fields of a record other than those in keys, as a set of pairs
FieldsBut(d, keys) == {d.v[k] : k \in {n \in 1..Len(d.v) : d.v[n][1] \notin keys}}

\* an option without its id: what the relabelling leaves of it
SansId(opt) ==
    IF IsDict(opt) THEN [dict |-> TRUE, fields |-> FieldsBut(opt, {kId}), whole |-> Null]
    ELSE [dict |-> FALSE, fields |-> {}, whole |-> opt]

\* how many options of the list are x once their ids are taken off
TimesIn(options, x) == Cardinality({k \in 1..Len(options) : SansId(options[k]) = x})

\* after holds the options of before, each as often, in any order and
\* with any ids
SameOptionsReordered(before, after) ==
    /\ Len(after) = Len(before)
    /\ \A k \in 1..Len(after) :
          TimesIn(after, SansId(after[k])) = TimesIn(before, SansId(after[k]))

\* the record after differs from before in nothing but the order and the
\* ids of its options and its correctAnswer
SameButShuffle(before, after) ==
    IF ~IsDict(before) THEN after = before
    ELSE /\ IsDict(after)
         /\ FieldsBut(after, {kOptions, kCorrectAnswer})
               = FieldsBut(before, {kOptions, kCorrectAnswer})
         /\ HasKey(after, kOptions) = HasKey(before, kOptions)
         /\ IF IsList(Get(before, kOptions, Null))
            THEN /\ IsList(Get(after, kOptions, Null))
                 /\ SameOptionsReordered(Get(before, kOptions, Null).v,
                                         Get(after, kOptions, Null).v)
            ELSE Get(after, kOptions, Null) = Get(before, kOptions, Null)

SameRecordsButShuffle(before, after) ==
    /\ Len(after) = Len(before)
    /\ \A k \in 1..Len(after) : SameButShuffle(before[k], after[k])

\* C29: randomize_question_options changes nothing but the order and the
\* ids of options and the correctAnswer field: while it runs, when it
\* returns and when it raises, the list holds as many records as it was
\* given, in the same order, each with as many options, the same options but
\* for their ids, and the same id, text, explanation, topic and any other
\* field; the list it returns is that list.
C29_RandomizerFrame ==
    input.schema = "rand"
        => /\ SameRecordsButShuffle(RandQuestions(input), rand_questions)
           /\ pc = "returned" => result = rand_questions

\* C29: the call has returned a question whose options changed places and
\* whose correctAnswer was rewritten, followed by a second question
C29_Witness ==
    /\ pc = "returned"
    /\ input.family = "objects"
    /\ input.n = 3
    /\ input.second
    /\ Get(result[1], kOptions, Null) # Get(RandQuestions(input)[1], kOptions, Null)
    /\ Get(result[1], kCorrectAnswer, Null) # Get(RandQuestions(input)[1], kCorrectAnswer, Null)
    /\ Get(result[1], kExplanation, Null) = Get(ExampleRecord, kExplanation, Null)

\* the value a raw record gives under key, or else under its alias; Null
\* when it has neither
RawUnder(error, key, alias) ==
    IF HasKey(error, key) THEN Get(error, key, Null)
    ELSE IF HasKey(error, alias) THEN Get(error, alias, Null)
    ELSE Null

\* C30: the marksReceived and totalMarks of a normalized record are the
\* values the raw record gives under the camelCase key, or else under the
\* snake_case alias, for every number including 0; they are null only when
\* the raw record has neither key.
C30_MarksCopiedIncludingZero ==
    (pc = "done" /\ input.family = "marks" /\ Len(result) = 1)
        => /\ Get(result[1], kMarksReceived, Null)
                = RawUnder(MarksRecord(input), kMarksReceived, kMarksReceivedSnake)
           /\ Get(result[1], kTotalMarks, Null)
                = RawUnder(MarksRecord(input), kTotalMarks, kTotalMarksSnake)

====
